----------------------- MODULE AttemptLifecycleProofs -----------------------
(***************************************************************************)
(* What holds of AttemptLifecycle for every worktree, every number of      *)
(* review rounds and every number of operator decisions.                   *)
(***************************************************************************)
EXTENDS AttemptLifecycle, TLAPS

USE BoundsAssumption

-----------------------------------------------------------------------------
(* The ledger records keep their types.                                    *)

\* The empty records and the lanes are of their types.
LEMMA RecordTypes ==
    /\ NoResult \in Result /\ NoAttempt \in Attempt /\ NoIncident \in Incident
    /\ NoApproval \in Approval /\ NoHandoff \in Handoff
    /\ "worker" \in Lane /\ "reviewer" \in Lane
BY DEF NoResult, Result, NoAttempt, Attempt, NoIncident, Incident, NoApproval, Approval,
       NoHandoff, Handoff, Head, Names, Lane, Rule, RecoveryAction, MAX_ATTEMPT_RECONCILIATIONS

\* ControllerContext.block turns a well-formed Job into a well-formed Job.
LEMMA BlockType ==
    ASSUME NEW j \in Job, NEW class \in BlockClass, NEW lane \in Lane \union {"controller"},
           NEW result \in Result, NEW rule \in Rule
    PROVE  Block(j, class, lane, result, rule) \in Job
<1>1. [j.attempt EXCEPT !.phase = "settled", !.result = result] \in Attempt
  BY DEF Job, Attempt, AttemptPhase
<1>2. [id |-> NextName(j.incident.id), class |-> class, lane |-> lane,
       attempt |-> j.attempt.id, rule |-> rule] \in Incident
  BY DEF Job, Incident, Attempt, Names, NextName
<1>. QED
  BY <1>1, <1>2, RecordTypes DEF Block, Job, JobState, Advice

\* reconcileAttemptOrBlock, counting or blocking, keeps the Job well formed.
LEMMA ReconcileType ==
    ASSUME NEW j \in Job, NEW transient \in BOOLEAN
    PROVE  reconcileAttemptOrBlock(j, transient) \in Job
<1>1. automaticRecoveryCandidateForAttempt(j, transient) \in Rule
  BY DEF automaticRecoveryCandidateForAttempt, Rule
<1>2. j.attempt.lane \in Lane \union {"controller"}
  BY DEF Job, Attempt
<1>3. CASE j.attempt.retries >= MAX_ATTEMPT_RECONCILIATIONS
  BY <1>1, <1>2, <1>3, BlockType, RecordTypes DEF reconcileAttemptOrBlock, BlockClass
<1>4. CASE ~(j.attempt.retries >= MAX_ATTEMPT_RECONCILIATIONS)
  <2>1. j.attempt.retries + 1 \in 0..MAX_ATTEMPT_RECONCILIATIONS
    BY <1>4 DEF Job, Attempt, MAX_ATTEMPT_RECONCILIATIONS
  <2>2. [j.attempt EXCEPT !.retries = @ + 1] \in Attempt
    BY <2>1 DEF Job, Attempt
  <2>. QED
    BY <1>4, <2>2 DEF reconcileAttemptOrBlock, Job
<1>. QED
  BY <1>3, <1>4

\* Accepting a result of the active Attempt keeps the Job well formed.
LEMMA SettlementType ==
    ASSUME NEW j \in Job, report \in Result
    PROVE  Settlement(j) \in Job
<1>. [kind |-> "review_changes", lane |-> "worker", head |-> j.head, receipt |-> FALSE] \in Handoff
  BY DEF Job, Handoff, Lane
<1>. QED
  BY RecordTypes DEF Settlement, Job, JobState, Result, Attempt

\* Taking a blocked Job back for a late result keeps it well formed.
LEMMA ReconciledType == ASSUME NEW j \in Job PROVE Reconciled(j) \in Job
BY RecordTypes DEF Reconciled, Job, Advice

\* A policy authorization is a well-formed Approval of a well-formed Job.
LEMMA AuthorizeType ==
    ASSUME NEW j \in Job, NEW advice \in Advice
    PROVE  authorizeAutomaticRecovery(j, advice) \in Job
<1>1. RuleAction(j.incident.rule, j.attempt.lane) \in RecoveryAction
  BY DEF RuleAction, RecoveryAction, RetryAction
<1>2. [basis |-> "policy_rule", incident |-> j.incident.id,
       action |-> RuleAction(j.incident.rule, j.attempt.lane),
       rule |-> j.incident.rule, consumed |-> FALSE] \in Approval
  BY <1>1 DEF Job, Incident, Approval
<1>3. FingerprintOf(j) \in Fingerprint
  BY DEF FingerprintOf, Fingerprint, Job, Incident, Attempt
<1>. QED
  BY <1>2, <1>3 DEF authorizeAutomaticRecovery, Job, JobState

Ticks == [at : TickPoint, fresh : BOOLEAN]

\* Every point a tick is put at, fresh or overtaken, is a tick.
LEMMA TickTypes ==
    /\ Idle \in Ticks
    /\ At("pane") \in Ticks /\ At("agent") \in Ticks /\ At("prompt") \in Ticks
    /\ At("close") \in Ticks /\ At("settle") \in Ticks /\ At("advise") \in Ticks
    /\ At("retire") \in Ticks /\ At("retry") \in Ticks
    /\ At("unready") \in Ticks /\ At("unread") \in Ticks /\ At("kept") \in Ticks
    /\ \A t \in Ticks, point \in TickPoint : [t EXCEPT !.at = point] \in Ticks
    /\ \A t \in Ticks : [t EXCEPT !.fresh = FALSE] \in Ticks
    /\ "settle" \in TickPoint
BY DEF Idle, At, Ticks, TickPoint, Refusal

\* Advancing the active Attempt's phase, handle or receipt keeps the Job well
\* formed.
LEMMA AttemptUpdates ==
    ASSUME NEW j \in Job
    PROVE  /\ \A phase \in AttemptPhase :
                [j EXCEPT !.attempt.phase = phase, !.attempt.retries = 0] \in Job
           /\ [j EXCEPT !.attempt.phase = "pane_ready", !.attempt.handle = TRUE,
                        !.attempt.retries = 0] \in Job
<1>1. 0 \in 0..MAX_ATTEMPT_RECONCILIATIONS
  BY DEF MAX_ATTEMPT_RECONCILIATIONS
<1>2. ASSUME NEW phase \in AttemptPhase
      PROVE  [j EXCEPT !.attempt.phase = phase, !.attempt.retries = 0] \in Job
  <2>1. [j.attempt EXCEPT !.phase = phase, !.retries = 0] \in Attempt
    BY <1>1 DEF Job, Attempt
  <2>. QED
    BY <2>1 DEF Job
<1>3. [j.attempt EXCEPT !.phase = "pane_ready", !.handle = TRUE, !.retries = 0] \in Attempt
  BY <1>1 DEF Job, Attempt, AttemptPhase
<1>. QED
  BY <1>2, <1>3 DEF Job

\* k is the Job but for the receipt of its Attempt, which is all a validation changes.
ButReceipt(k) ==
    /\ k.state = job.state /\ k.head = job.head /\ k.round = job.round /\ k.auto = job.auto
    /\ k.handoff = job.handoff /\ k.incident = job.incident /\ k.analysis = job.analysis
    /\ k.approval = job.approval
    /\ k.attempt.id = job.attempt.id /\ k.attempt.lane = job.attempt.lane
    /\ k.attempt.phase = job.attempt.phase /\ k.attempt.round = job.attempt.round
    /\ k.attempt.head = job.attempt.head /\ k.attempt.handle = job.attempt.handle

LEMMA ReceiptKeepsJob ==
    ASSUME job \in Job, NEW receipt \in {"none", "own"}
    PROVE  /\ [job EXCEPT !.attempt.receipt = receipt] \in Job
           /\ ButReceipt([job EXCEPT !.attempt.receipt = receipt])
<1>1. [job.attempt EXCEPT !.receipt = receipt] \in Attempt
  BY DEF Job, Attempt
<1>. QED
  BY <1>1 DEF Job, Attempt, ButReceipt

\* A validation saves the Job with the receipt it has now, or an incident of it.
LEMMA ValidationSaves ==
    ASSUME ReviewerValidation, job \in Job
    PROVE  \E k \in Job :
              /\ ButReceipt(k)
              /\ \/ Saves(k)
                 \/ \E class \in BlockClass : Saves(Block(k, class, "reviewer", NoResult, "none"))
<1>1. CASE Saves([job EXCEPT !.attempt.receipt = "own"])
  BY <1>1, ReceiptKeepsJob
<1>2. CASE \E receipt \in {"none", "own"} :
             Saves(Block([job EXCEPT !.attempt.receipt = receipt],
                         IF TreeMatches(job.head) THEN "validation_infrastructure" ELSE PreflightClass(job),
                         "reviewer", NoResult, "none"))
  <2>1. (IF TreeMatches(job.head) THEN "validation_infrastructure" ELSE PreflightClass(job)) \in BlockClass
    BY DEF PreflightClass, BlockClass
  <2>. QED
    BY <1>2, <2>1, ReceiptKeepsJob
<1>. QED
  BY <1>1, <1>2 DEF ReviewerValidation

\* A decision of the operator saves a well-formed Job and counts within its
\* bound.
LEMMA DecisionType ==
    ASSUME TypeOK, NEW next \in Job, Decides(next), tries' \in [Lane -> Nat]
    PROVE  TypeOK'
<1>1. decisions' \in 0..MaxDecisions
  BY DEF Decides, TypeOK
<1>2. tick' \in Ticks
  BY TickTypes DEF Decides, TypeOK, Ticks
<1>. QED
  BY <1>1, <1>2 DEF Decides, TypeOK, Ticks, runtime

\* The type invariant: every handler saves a well-formed Job record.
THEOREM TypeCorrect == Spec => []TypeOK
<1>1. Init => TypeOK
  <2>. SUFFICES ASSUME Init PROVE TypeOK
    OBVIOUS
  <2>1. job \in Job
    BY RecordTypes DEF Init, Job, JobState, Head, Names, Advice
  <2>. QED
    <3>1. tree \in [head : Head, dirty : BOOLEAN]
      BY DEF Init, Head
    <3>2. tries \in [Lane -> Nat]
      BY DEF Init
    <3>3. tick \in Ticks /\ report \in Result /\ agent \in AgentState
      BY RecordTypes, TickTypes DEF Init, AgentState
    <3>4. orphaned \in BOOLEAN /\ prompts \in Nat /\ verdicts \in SUBSET Head /\ decisions \in 0..MaxDecisions
      <4>1. 0 \in 0..MaxDecisions
        OBVIOUS
      <4>. QED
        BY <4>1 DEF Init
    <3>. QED
      BY <2>1, <3>1, <3>2, <3>3, <3>4 DEF TypeOK, Ticks
<1>2. TypeOK /\ [Next]_vars => TypeOK'
  <2>. SUFFICES ASSUME TypeOK, [Next]_vars PROVE TypeOK'
    OBVIOUS
  <2>. USE TickTypes DEF TypeOK, Ticks, Saves, runtime, ledger
  <2>1. ASSUME NEW lane \in Lane, PrepareAttempt(lane) PROVE TypeOK'
    <3>1. PICK receipt \in {"none", "own", "reused"} :
            job' = [job EXCEPT
             !.state = RunningState(lane),
             !.attempt = [NoAttempt EXCEPT
                 !.id = NextName(job.incident.attempt), !.lane = lane, !.phase = "prepared",
                 !.round = job.round + 1, !.head = job.head, !.receipt = receipt],
             !.handoff = NoHandoff]
      BY <2>1 DEF PrepareAttempt
    <3>2. NextName(job.incident.attempt) \in Names
      BY DEF NextName, Names
    <3>3. [NoAttempt EXCEPT
                 !.id = NextName(job.incident.attempt), !.lane = lane, !.phase = "prepared",
                 !.round = job.round + 1, !.head = job.head, !.receipt = receipt] \in Attempt
      <4>1. /\ "prepared" \in AttemptPhase /\ job.head \in Head /\ job.round + 1 \in Nat
        BY DEF AttemptPhase, Job
      <4>2. \A x \in Attempt :
              [x EXCEPT !.id = NextName(job.incident.attempt), !.lane = lane, !.phase = "prepared"] \in Attempt
        BY <3>2 DEF Attempt, AttemptPhase
      <4>3. \A x \in Attempt :
              [x EXCEPT !.round = job.round + 1, !.head = job.head, !.receipt = receipt] \in Attempt
        BY <4>1 DEF Attempt
      <4>. QED
        BY <4>2, <4>3, RecordTypes
    <3>4. job' \in Job
      BY <3>1, <3>2, <3>3, RecordTypes DEF Job, RunningState, JobState
    <3>. QED
      BY <2>1, <3>4, RecordTypes DEF PrepareAttempt, AgentState
  <2>2. CASE BlockProvenanceDrift
    <3>1. job.attempt.lane \in Lane \union {"controller"}
      BY <2>2 DEF BlockProvenanceDrift, Job, Attempt
    <3>2. "integrity_violation" \in BlockClass /\ "none" \in Rule
      BY DEF BlockClass, Rule
    <3>3. Block(job, "integrity_violation", job.attempt.lane, NoResult, "none") \in Job
      BY <3>1, <3>2, BlockType, RecordTypes
    <3>. QED
      BY <2>2, <3>3 DEF BlockProvenanceDrift
  <2>3. CASE ReviewerValidation
    <3>1. PICK k \in Job : \/ Saves(k)
                           \/ \E class \in BlockClass : Saves(Block(k, class, "reviewer", NoResult, "none"))
      BY <2>3, ValidationSaves
    <3>2. job' \in Job /\ tick' = Idle
      <4>1. \A class \in BlockClass : Block(k, class, "reviewer", NoResult, "none") \in Job
        BY BlockType, RecordTypes DEF Rule
      <4>. QED
        BY <3>1, <4>1
    <3>. QED
      BY <2>3, <3>2 DEF ReviewerValidation
  <2>4. CASE BlockReviewerPreflight
    BY <2>4, BlockType, RecordTypes DEF BlockReviewerPreflight, BlockClass, Rule, PreflightClass
  <2>5. CASE CreateAttemptPane
    <3>1. job' \in Job
      <4>1. reconcileAttemptOrBlock(job, FALSE) \in Job
        BY ReconcileType
      <4>2. Block(job, "review_uncertain", "reviewer", NoResult, "none") \in Job
        BY BlockType, RecordTypes DEF BlockClass, Rule
      <4>. QED
        BY <2>5, <4>1, <4>2 DEF CreateAttemptPane
    <3>2. tick' \in Ticks
      BY <2>5 DEF CreateAttemptPane
    <3>3. agent' \in AgentState
      BY <2>5 DEF CreateAttemptPane, AgentState
    <3>. QED
      BY <2>5, <3>1, <3>2, <3>3 DEF CreateAttemptPane
  <2>6. CASE SavePaneReady
    <3>1. [job EXCEPT !.attempt.phase = "pane_ready", !.attempt.handle = TRUE,
                      !.attempt.retries = 0] \in Job
      BY AttemptUpdates
    <3>. QED
      BY <2>6, <3>1 DEF SavePaneReady
  <2>7. CASE StartAgent
    <3>0. reconcileAttemptOrBlock(job, FALSE) \in Job
      BY ReconcileType
    <3>1. job' \in Job /\ tick' \in Ticks
      BY <2>7, <3>0 DEF StartAgent
    <3>2. agent' \in AgentState
      BY <2>7 DEF StartAgent, AgentState
    <3>. QED
      BY <2>7, <3>1, <3>2 DEF StartAgent
  <2>8. CASE SaveAgentReady
    <3>1. [job EXCEPT !.attempt.phase = "agent_ready", !.attempt.retries = 0] \in Job
      BY AttemptUpdates DEF AttemptPhase
    <3>. QED
      BY <2>8, <3>1 DEF SaveAgentReady
  <2>9. CASE PersistRunning
    <3>1. [job EXCEPT !.attempt.phase = "running", !.attempt.retries = 0] \in Job
      BY AttemptUpdates DEF AttemptPhase
    <3>. QED
      BY <2>9, <3>1 DEF PersistRunning
  <2>10. CASE Prompt
    BY <2>10 DEF Prompt, AgentState, Alive
  <2>11. CASE FinishObservedAttempt
    <3>1. Observed \in Job
      BY ReconciledType DEF Observed
    <3>2. Verdict # "none" => Verdict \in BlockClass
      BY DEF Verdict, BlockClass
    <3>3. job.attempt.lane \in Lane \union {"controller"}
      BY DEF Job, Attempt
    <3>4. Verdict # "none" => Block(Observed, Verdict, job.attempt.lane, report, "none") \in Job
      BY <3>1, <3>2, <3>3, BlockType DEF Rule
    <3>5. job' \in Job /\ tick' \in Ticks
      BY <2>11, <3>4 DEF FinishObservedAttempt
    <3>. QED
      BY <2>11, <3>5 DEF FinishObservedAttempt
  <2>12. CASE ObserveNothing
    <3>1. Block(job, "integrity_violation", "reviewer", NoResult, "none") \in Job
      BY BlockType, RecordTypes DEF BlockClass, Rule
    <3>2. Block(job, "agent_blocked", job.attempt.lane, NoResult, "none") \in Job
      <4>1. job.attempt.lane \in Lane \union {"controller"}
        BY DEF Job, Attempt
      <4>. QED
        BY <4>1, BlockType, RecordTypes DEF BlockClass, Rule
    <3>3. job' \in Job /\ tick' \in Ticks
      BY <2>12, <3>1, <3>2, ReconcileType DEF ObserveNothing
    <3>4. agent' \in AgentState
      BY <2>12 DEF ObserveNothing, AgentState
    <3>. QED
      BY <2>12, <3>3, <3>4 DEF ObserveNothing
  <2>13. CASE CloseCompletedAttempt
    <3>1. tick' \in Ticks /\ agent' \in AgentState
      BY <2>13 DEF CloseCompletedAttempt, AgentState
    <3>. QED
      BY <2>13, <3>1 DEF CloseCompletedAttempt
  <2>14. CASE SettleAttempt
    <3>1. Settlement(Observed) \in Job
      BY ReconciledType, SettlementType DEF Observed
    <3>. QED
      BY <2>14, <3>1 DEF SettleAttempt
  <2>15. CASE AuthorizeProviderRecovery
    BY <2>15, AuthorizeType DEF AuthorizeProviderRecovery, LateWaitMayClose, AgentState, Advice
  <2>16. CASE StartDiagnosis
    BY <2>16 DEF StartDiagnosis, LateWaitMayClose, AgentState
  <2>17. CASE RecordAdvice
    <3>1. PICK advice \in Advice :
            job' = IF automaticRecoveryFor(job, advice)
                     THEN authorizeAutomaticRecovery(job, advice)
                     ELSE [job EXCEPT !.analysis = advice]
      BY <2>17 DEF RecordAdvice, Advice
    <3>2. [job EXCEPT !.analysis = advice] \in Job
      BY DEF Job
    <3>. QED
      BY <2>17, <3>1, <3>2, AuthorizeType DEF RecordAdvice
  <2>18. ASSUME NEW basis \in {"analyst_advice", "human_decision"}, NEW action \in RetryAction,
                Decides(HumanApproval(basis, action)), tries' = [l \in Lane |-> 0]
         PROVE TypeOK'
    <3>1. [basis |-> basis, incident |-> job.incident.id, action |-> action, rule |-> "none",
           consumed |-> FALSE] \in Approval
      BY DEF Approval, RecoveryAction, Rule, Job, Incident
    <3>2. HumanApproval(basis, action) \in Job
      BY <3>1 DEF HumanApproval, Job, JobState
    <3>. QED
      BY <2>18, <3>2, DecisionType
  <2>19. CASE approveRecovery
    <3>. retryActions(job.incident) \subseteq RetryAction
      BY DEF retryActions, allowedActionsFor, RetryAction
    <3>. QED
      BY <2>18, <2>19 DEF approveRecovery
  <2>20. CASE resolveDecision
    BY <2>18, <2>20 DEF resolveDecision, RetryAction
  <2>21. CASE reassessIncident
    <3>1. reassessmentClassFor(job) # "none" => reassessmentClassFor(job) \in BlockClass
      BY DEF reassessmentClassFor, BlockClass, Job, Incident
    <3>2. NextName(job.incident.id) \in Names
      BY DEF NextName, Names
    <3>3. reassessmentClassFor(job) # "none" => SuccessorIncident \in Incident
      BY <3>1, <3>2 DEF SuccessorIncident, Job, Incident, Rule
    <3>4. ASSUME SuccessorIncident \in Incident
          PROVE  [job EXCEPT !.incident = SuccessorIncident, !.analysis = "none"] \in Job
      BY <3>4 DEF Job, Advice
    <3>. QED
      BY <2>21, <3>3, <3>4, DecisionType DEF reassessIncident
  <2>22. CASE cancelHeldJob
    <3>1. [job EXCEPT !.state = "cancelled"] \in Job
      BY DEF Job, JobState
    <3>. QED
      BY <2>22, <3>1, DecisionType DEF cancelHeldJob
  <2>23. CASE ApplyRecovery
    <3>1. RecoveryObstacle # "none" => RecoveryObstacle \in BlockClass
      BY DEF RecoveryObstacle, PreflightClass, BlockClass
    <3>2. RecoveryObstacle # "none" =>
            Block(job, RecoveryObstacle, IF ApprovalBinds THEN job.attempt.lane ELSE "controller",
                  IF ApprovalBinds THEN job.attempt.result ELSE NoResult, "none") \in Job
      BY <3>1, BlockType, RecordTypes DEF Job, Attempt, Rule
    <3>. QED
      <4>1. job' \in Job /\ tick' \in Ticks
        BY <2>23, <3>2 DEF ApplyRecovery
      <4>2. agent' \in AgentState
        BY <2>23 DEF ApplyRecovery, LateWaitMayClose, AgentState
      <4>. QED
        BY <2>23, <4>1, <4>2 DEF ApplyRecovery
  <2>24. CASE CloseRetiredAttempt
    <3>1. tick' \in Ticks /\ agent' \in AgentState
      BY <2>24 DEF CloseRetiredAttempt, AgentState
    <3>. QED
      BY <2>24, <3>1 DEF CloseRetiredAttempt
  <2>25. CASE SaveFreshLane
    <3>1. RetryLane(job.approval.action) \in Lane
      BY DEF RetryLane, Lane
    <3>2. FreshLane(RetryLane(job.approval.action)) \in Job
      <4>1. [kind |-> "approved_recovery", lane |-> RetryLane(job.approval.action), head |-> job.head,
             receipt |-> RetryLane(job.approval.action) = "reviewer" /\ job.attempt.receipt = "own"]
              \in Handoff
        BY <3>1 DEF Job, Handoff
      <4>2. [job.approval EXCEPT !.consumed = TRUE] \in Approval
        BY DEF Job, Approval
      <4>. QED
        BY <3>1, <4>1, <4>2, RecordTypes DEF FreshLane, Job, ReadyState, JobState, Advice
    <3>. QED
      BY <2>25, <3>2 DEF SaveFreshLane
  <2>26. CASE CloseCancelledAttempt
    BY <2>26 DEF CloseCancelledAttempt, AgentState
  <2>27. CASE AbandonStaleTick
    BY <2>27 DEF AbandonStaleTick
  <2>28. CASE Crash
    BY <2>28 DEF Crash
  <2>29. CASE AgentEdits
    BY <2>29 DEF AgentEdits, Head
  <2>30. CASE AgentReports
    <3>1. PICK kind \in WorkerReport \union ReviewerReport, head \in Head :
            /\ report' = [kind |-> kind, head |-> head]
            /\ verdicts' = IF kind = "pass" THEN verdicts \union {head} ELSE verdicts
      BY <2>30 DEF AgentReports
    <3>. QED
      BY <2>30, <3>1 DEF AgentReports, Result
  <2>31. CASE AgentYields
    BY <2>31 DEF AgentYields, AgentState
  <2>32. CASE TreeDrifts
    <3>1. tree' \in [head : Head, dirty : BOOLEAN]
      <4>1. {tree.dirty, TRUE} \subseteq BOOLEAN
        OBVIOUS
      <4>2. {h \in {tree.head, tree.head + 1} : h <= MaxHead} \subseteq Head
        BY DEF Head
      <4>. QED
        BY <2>32, <4>1, <4>2 DEF TreeDrifts
    <3>. QED
      BY <2>32, <3>1 DEF TreeDrifts
  <2>33. CASE OperatorCleansTree
    BY <2>33 DEF OperatorCleansTree
  <2>34. CASE UNCHANGED vars
    BY <2>34 DEF vars
  <2>35. CASE FailPreflight \/ EndRefused
    BY <2>35 DEF FailPreflight, EndRefused
  <2>36. CASE FailToRead
    <3>1. agent' \in AgentState /\ tick' \in Ticks
      BY <2>36 DEF FailToRead, AgentState
    <3>. QED
      BY <2>36, <3>1 DEF FailToRead
  <2>. QED
    BY <2>1, <2>2, <2>3, <2>4, <2>5, <2>6, <2>7, <2>8, <2>9, <2>10, <2>11, <2>12, <2>13, <2>14,
       <2>15, <2>16, <2>17, <2>19, <2>20, <2>21, <2>22, <2>23, <2>24, <2>25, <2>26, <2>27,
       <2>28, <2>29, <2>30, <2>31, <2>32, <2>33, <2>34, <2>35, <2>36
    DEF Next, TickStep, TickEnd, Operator, World
<1>. QED
  BY <1>1, <1>2, PTL DEF Spec

-----------------------------------------------------------------------------
(* What the ledger updates do to the active Attempt.                       *)

\* Blocking settles the Attempt; it neither starts nor forgets one.
LEMMA BlockKeepsAttempt ==
    ASSUME NEW j \in Job, NEW class, NEW lane, NEW result, NEW rule
    PROVE  /\ Block(j, class, lane, result, rule).state = "blocked"
           /\ Block(j, class, lane, result, rule).head = j.head
           /\ Block(j, class, lane, result, rule).attempt.id = j.attempt.id
           /\ Block(j, class, lane, result, rule).attempt.handle = j.attempt.handle
           /\ Block(j, class, lane, result, rule).attempt.phase \in {"settled", j.attempt.phase}
           /\ Attempting(j) => Block(j, class, lane, result, rule).attempt.phase = "settled"
BY DEF Block, Attempting, Job, Attempt

\* Reconciling keeps the Attempt, and blocks or counts it without moving its
\* handle.
LEMMA ReconcileKeepsAttempt ==
    ASSUME NEW j \in Job, NEW transient
    PROVE  /\ reconcileAttemptOrBlock(j, transient).state \in {"blocked", j.state}
           /\ reconcileAttemptOrBlock(j, transient).attempt.id = j.attempt.id
           /\ reconcileAttemptOrBlock(j, transient).attempt.handle = j.attempt.handle
           /\ reconcileAttemptOrBlock(j, transient).attempt.phase \in {"settled", j.attempt.phase}
<1>1. CASE j.attempt.retries >= MAX_ATTEMPT_RECONCILIATIONS
  <2>1. reconcileAttemptOrBlock(j, transient)
          = Block(j, "infrastructure_exhausted", j.attempt.lane, NoResult,
                  automaticRecoveryCandidateForAttempt(j, transient))
    BY <1>1 DEF reconcileAttemptOrBlock
  <2>. QED
    BY <2>1, BlockKeepsAttempt
<1>2. CASE ~(j.attempt.retries >= MAX_ATTEMPT_RECONCILIATIONS)
  BY <1>2 DEF reconcileAttemptOrBlock, Job, Attempt
<1>. QED
  BY <1>1, <1>2

\* Taking a late result into account keeps the Attempt the Job has.
LEMMA ObservedKeepsAttempt ==
    ASSUME job \in Job
    PROVE  Observed \in Job /\ Observed.attempt = job.attempt /\ Observed.head = job.head
BY ReconciledType DEF Observed, Reconciled, Job

\* The ticks that are at a point of their own, and the idle one.
LEMMA TickPoints ==
    /\ Idle.at = "idle" /\ At("pane").at = "pane" /\ At("agent").at = "agent"
    /\ At("prompt").at = "prompt" /\ At("close").at = "close" /\ At("settle").at = "settle"
    /\ At("advise").at = "advise" /\ At("retire").at = "retire" /\ At("retry").at = "retry"
    /\ At("unready").at = "unready" /\ At("unread").at = "unread" /\ At("kept").at = "kept"
    /\ Idle.fresh /\ \A point : At(point).fresh
BY DEF Idle, At

\* Blocking the active Attempt keeps every part of the invariant: its handle
\* stays, its phase claims nothing any more, and no tick is in flight.
LEMMA BlockKeepsExclusive ==
    ASSUME TypeOK, ExclusiveInv, NEW class, NEW lane, NEW result, NEW rule,
           Saves(Block(job, class, lane, result, rule)),
           agent' \in {agent, "absent", "pane", "closed"},
           UNCHANGED <<orphaned, prompts>>
    PROVE  ExclusiveInv'
<1>. DEFINE b == Block(job, class, lane, result, rule)
<1>1. /\ job' = b /\ tick' = Idle /\ b.state = "blocked"
      /\ b.attempt.id = job.attempt.id /\ b.attempt.handle = job.attempt.handle
      /\ b.attempt.phase \in {"settled", job.attempt.phase}
  BY BlockKeepsAttempt DEF Saves, TypeOK
<1>. HIDE DEF b
<1>2. agent' \in Alive => agent \in Alive
  BY DEF Alive
<1>. QED
  BY <1>1, <1>2, TickPoints
  DEF ExclusiveInv, SingleLiveAgent, PromptedAtMostOnce, Attempting, Running, Ready

\* A save of reconcileAttemptOrBlock keeps every part of the invariant.
LEMMA ReconcileKeepsExclusive ==
    ASSUME TypeOK, ExclusiveInv, NEW transient, job.attempt.id # 0,
           Saves(reconcileAttemptOrBlock(job, transient)),
           agent' \in Alive => job.attempt.handle,
           UNCHANGED <<orphaned, prompts>>
    PROVE  ExclusiveInv'
<1>. DEFINE r == reconcileAttemptOrBlock(job, transient)
<1>1. /\ job' = r /\ tick' = Idle /\ r.state \in {"blocked", job.state}
      /\ r.attempt.id = job.attempt.id /\ r.attempt.handle = job.attempt.handle
      /\ r.attempt.phase \in {"settled", job.attempt.phase}
  BY ReconcileKeepsAttempt DEF Saves, TypeOK
<1>. HIDE DEF r
<1>. QED
  BY <1>1, TickPoints
  DEF ExclusiveInv, SingleLiveAgent, PromptedAtMostOnce, Attempting, Running, Ready

\* Steps that leave Attempt and dispatch alone, and kill at most.
LEMMA QuietKeepsExclusive ==
    ASSUME ExclusiveInv, job'.attempt = job.attempt,
           job'.state = job.state \/ job'.state \notin Running \union Ready,
           \/ tick' = tick /\ job'.state = job.state
           \/ tick' \in {Idle, At("close"), At("advise"), At("retire")}
           \/ tick' \in {At("unready"), At("unread"), At("kept")}
           \/ ~tick'.fresh /\ tick'.at = tick.at,
           agent' \in Alive => agent \in Alive,
           UNCHANGED <<orphaned, prompts>>
    PROVE  ExclusiveInv'
BY TickPoints
DEF ExclusiveInv, SingleLiveAgent, PromptedAtMostOnce, Attempting, Running, Ready

-----------------------------------------------------------------------------
(* Exclusion and dispatch.                                                 *)

\* ExclusiveInv is inductive: one step per action, whatever the tick was at.
LEMMA ExclusiveStep == TypeOK /\ ExclusiveInv /\ [Next]_vars => ExclusiveInv'
<1>. SUFFICES ASSUME TypeOK, ExclusiveInv, [Next]_vars PROVE ExclusiveInv'
  OBVIOUS
<1>. USE DEF runtime, ledger
<1>1. ASSUME NEW lane \in Lane, PrepareAttempt(lane) PROVE ExclusiveInv'
  <2>1. /\ job'.state \in Running /\ job'.attempt.phase = "prepared"
        /\ job'.attempt.id # 0 /\ job'.attempt.handle = FALSE
    <3>1. PICK receipt :
            job' = [job EXCEPT
             !.state = RunningState(lane),
             !.attempt = [NoAttempt EXCEPT
                 !.id = NextName(job.incident.attempt), !.lane = lane, !.phase = "prepared",
                 !.round = job.round + 1, !.head = job.head, !.receipt = receipt],
             !.handoff = NoHandoff]
      BY <1>1 DEF PrepareAttempt, Saves
    <3>2. NextName(job.incident.attempt) # 0
      BY DEF NextName
    <3>. QED
      BY <3>1, <3>2 DEF TypeOK, Job, NoAttempt, RunningState, Running
  <2>2. job.state \in Ready
    BY <1>1 DEF PrepareAttempt, Loads, ReadyState, Ready
  <2>3. orphaned' = FALSE
    BY <1>1, <2>2 DEF PrepareAttempt, ExclusiveInv, SingleLiveAgent
  <2>. QED
    BY <1>1, <2>1, <2>3, TickPoints
    DEF PrepareAttempt, Saves, ExclusiveInv, SingleLiveAgent, PromptedAtMostOnce, Attempting,
        Running, Ready, Alive
<1>2. CASE BlockProvenanceDrift
  BY <1>2, BlockKeepsExclusive DEF BlockProvenanceDrift
<1>3. CASE ReviewerValidation
  <2>1. PICK k \in Job :
          /\ ButReceipt(k)
          /\ \/ Saves(k)
             \/ \E class \in BlockClass : Saves(Block(k, class, "reviewer", NoResult, "none"))
    BY <1>3, ValidationSaves DEF TypeOK
  <2>2. /\ job'.state \in {"blocked", job.state} /\ tick' = Idle
        /\ job'.attempt.id = job.attempt.id /\ job'.attempt.handle = job.attempt.handle
        /\ job'.attempt.phase \in {"settled", job.attempt.phase}
    <3>1. CASE Saves(k)
      BY <2>1, <3>1 DEF Saves, ButReceipt
    <3>2. CASE \E class \in BlockClass : Saves(Block(k, class, "reviewer", NoResult, "none"))
      BY <2>1, <3>2, BlockKeepsAttempt DEF Saves, ButReceipt
    <3>. QED
      BY <2>1, <3>1, <3>2
  <2>. QED
    BY <1>3, <2>2, TickPoints
    DEF ReviewerValidation, ExclusiveInv, SingleLiveAgent, PromptedAtMostOnce, Attempting, Running, Ready
<1>4. CASE BlockReviewerPreflight
  BY <1>4, BlockKeepsExclusive DEF BlockReviewerPreflight
<1>5. CASE CreateAttemptPane
  <2>1. /\ job.state \in Running /\ job.attempt.phase = "prepared" /\ job.attempt.id # 0
        /\ tick = Idle /\ UNCHANGED <<orphaned, prompts>>
    BY <1>5 DEF CreateAttemptPane, PaneMayStart, Driving, Running, RunningState, ExclusiveInv, Attempting
  <2>2. agent' \in Alive => agent \in Alive
    BY <1>5 DEF CreateAttemptPane, Alive
  <2>3. CASE tick' = At("pane") /\ UNCHANGED job
    BY <2>1, <2>2, <2>3, TickPoints
    DEF ExclusiveInv, SingleLiveAgent, PromptedAtMostOnce, Attempting, Running, Ready
  <2>4. CASE Saves(reconcileAttemptOrBlock(job, FALSE))
    BY <2>1, <2>2, <2>4, ReconcileKeepsExclusive DEF ExclusiveInv, SingleLiveAgent
  <2>5. CASE Saves(Block(job, "review_uncertain", "reviewer", NoResult, "none")) /\ UNCHANGED agent
    BY <2>1, <2>5, BlockKeepsExclusive
  <2>. QED
    BY <1>5, <2>3, <2>4, <2>5 DEF CreateAttemptPane
<1>6. CASE SavePaneReady
  BY <1>6, TickPoints
  DEF SavePaneReady, Saves, TypeOK, Job, Attempt, ExclusiveInv, SingleLiveAgent,
      PromptedAtMostOnce, Attempting, Running, Ready
<1>7. CASE StartAgent
  <2>1. /\ job.state \in Running /\ job.attempt.phase = "pane_ready" /\ job.attempt.id # 0
        /\ job.attempt.handle /\ tick = Idle /\ UNCHANGED <<orphaned, prompts>>
    BY <1>7 DEF StartAgent, Driving, Running, RunningState, ExclusiveInv, Attempting
  <2>2. CASE tick' = At("agent") /\ UNCHANGED job
    BY <2>1, <2>2, TickPoints
    DEF ExclusiveInv, SingleLiveAgent, PromptedAtMostOnce, Attempting, Running, Ready
  <2>3. CASE Saves(reconcileAttemptOrBlock(job, FALSE))
    BY <2>1, <2>3, ReconcileKeepsExclusive
  <2>. QED
    BY <1>7, <2>2, <2>3 DEF StartAgent
<1>8. CASE SaveAgentReady
  BY <1>8, TickPoints
  DEF SaveAgentReady, Saves, TypeOK, Job, Attempt, ExclusiveInv, SingleLiveAgent,
      PromptedAtMostOnce, Attempting, Running, Ready
<1>9. CASE PersistRunning
  <2>1. /\ job.state \in Running /\ job.attempt.handle /\ job.attempt.id # 0 /\ prompts = 0
    BY <1>9 DEF PersistRunning, Driving, Running, RunningState, ExclusiveInv, Attempting
  <2>. QED
    BY <1>9, <2>1, TickPoints
    DEF PersistRunning, TypeOK, Job, Attempt, ExclusiveInv, SingleLiveAgent,
        PromptedAtMostOnce, Attempting, Running, Ready
<1>10. CASE Prompt
  BY <1>10, TickPoints
  DEF Prompt, TypeOK, ExclusiveInv, SingleLiveAgent, PromptedAtMostOnce, Attempting, Running, Ready, Alive
<1>11. CASE FinishObservedAttempt
  <2>1. CASE Verdict = "none"
    BY <1>11, <2>1, QuietKeepsExclusive DEF FinishObservedAttempt
  <2>2. CASE Verdict # "none"
    <3>1. /\ Saves(Block(Observed, Verdict, job.attempt.lane, report, "none"))
          /\ UNCHANGED <<agent, orphaned, prompts>>
      BY <1>11, <2>2 DEF FinishObservedAttempt
    <3>2. /\ job'.state = "blocked" /\ tick' = Idle
          /\ job'.attempt.id = job.attempt.id /\ job'.attempt.handle = job.attempt.handle
          /\ job'.attempt.phase \in {"settled", job.attempt.phase}
      BY <3>1, ObservedKeepsAttempt, BlockKeepsAttempt DEF Saves, TypeOK
    <3>. QED
      BY <3>1, <3>2, TickPoints
      DEF ExclusiveInv, SingleLiveAgent, PromptedAtMostOnce, Attempting, Running, Ready
  <2>. QED
    BY <2>1, <2>2
<1>12. CASE ObserveNothing
  <2>1. /\ job.attempt.phase = "running" /\ job.attempt.id # 0 /\ job.attempt.handle
        /\ UNCHANGED <<orphaned, prompts>>
    BY <1>12 DEF ObserveNothing, Driving, ExclusiveInv, Attempting
  <2>2. CASE \E transient \in {FALSE, TRUE} : Saves(reconcileAttemptOrBlock(job, transient))
    BY <2>1, <2>2, ReconcileKeepsExclusive
  <2>3. CASE \E class \in BlockClass, lane \in Lane :
               Saves(Block(job, class, lane, NoResult, "none")) /\ agent' \in {agent, "closed"}
    BY <2>1, <2>3, BlockKeepsExclusive
  <2>4. "integrity_violation" \in BlockClass /\ "agent_blocked" \in BlockClass
        /\ "reviewer" \in Lane /\ job.attempt.lane \in Lane
    BY DEF BlockClass, Lane, TypeOK, Job, Attempt
  <2>. QED
    BY <1>12, <2>2, <2>3, <2>4 DEF ObserveNothing
<1>13. CASE CloseCompletedAttempt
  <2>1. CASE agent' = "closed" /\ tick' = [tick EXCEPT !.at = "settle"]
    BY <1>13, <2>1, TickPoints
    DEF CloseCompletedAttempt, TypeOK, ExclusiveInv, SingleLiveAgent, PromptedAtMostOnce,
        Attempting, Alive
  <2>2. CASE UNCHANGED agent /\ tick' = At("kept")
    BY <1>13, <2>2, QuietKeepsExclusive DEF CloseCompletedAttempt
  <2>. QED
    BY <1>13, <2>1, <2>2 DEF CloseCompletedAttempt
<1>14. CASE SettleAttempt
  <2>1. agent \notin Alive
    BY <1>14, TickPoints DEF SettleAttempt, ExclusiveInv
  <2>2. job'.attempt = NoAttempt /\ job'.state \in Ready
    BY <1>14, ObservedKeepsAttempt DEF SettleAttempt, Saves, Settlement, TypeOK, Job, Ready
  <2>. QED
    BY <1>14, <2>1, <2>2, TickPoints
    DEF SettleAttempt, Saves, NoAttempt, ExclusiveInv, SingleLiveAgent, PromptedAtMostOnce,
        Attempting, Running, Ready
<1>15. CASE AuthorizeProviderRecovery
  <2>1. job'.attempt = job.attempt /\ job'.state = "recovery_approved"
    BY <1>15 DEF AuthorizeProviderRecovery, Saves, authorizeAutomaticRecovery, TypeOK, Job
  <2>2. agent' \in Alive => agent \in Alive
    BY <1>15 DEF AuthorizeProviderRecovery, LateWaitMayClose, Alive
  <2>. QED
    BY <1>15, <2>1, <2>2, QuietKeepsExclusive
    DEF AuthorizeProviderRecovery, Saves, Running, Ready
<1>16. CASE StartDiagnosis
  <2>1. agent' \in Alive => agent \in Alive
    BY <1>16 DEF StartDiagnosis, LateWaitMayClose, Alive
  <2>. QED
    BY <1>16, <2>1, QuietKeepsExclusive DEF StartDiagnosis
<1>17. CASE RecordAdvice
  <2>1. /\ job'.attempt = job.attempt
        /\ job'.state = job.state \/ job'.state = "recovery_approved"
    BY <1>17 DEF RecordAdvice, Saves, authorizeAutomaticRecovery, TypeOK, Job
  <2>. QED
    BY <1>17, <2>1, QuietKeepsExclusive DEF RecordAdvice, Saves, Running, Ready
<1>18. ASSUME NEW next, Decides(next), next.attempt = job.attempt,
              next.state \notin Running \union Ready
       PROVE  ExclusiveInv'
  <2>1. job.state = "blocked"
    BY <1>18 DEF Decides
  <2>2. CASE tick' = tick
    <3>1. tick \notin {At("pane"), At("agent"), At("prompt")}
      BY <2>1 DEF ExclusiveInv, Running
    <3>. QED
      BY <1>18, <2>1, <2>2, <3>1
      DEF Decides, ExclusiveInv, SingleLiveAgent, PromptedAtMostOnce, Attempting, Running, Ready
  <2>3. CASE tick' # tick
    <3>1. ~tick'.fresh /\ tick'.at = tick.at
      BY <1>18, <2>3 DEF Decides, TypeOK
    <3>. QED
      BY <1>18, <3>1, QuietKeepsExclusive DEF Decides
  <2>. QED
    BY <2>2, <2>3
<1>19. CASE Operator
  <2>1. ASSUME NEW basis, NEW action, Decides(HumanApproval(basis, action)) PROVE ExclusiveInv'
    <3>1. /\ HumanApproval(basis, action).attempt = job.attempt
          /\ HumanApproval(basis, action).state = "recovery_approved"
      BY DEF HumanApproval, TypeOK, Job
    <3>. QED
      BY <1>18, <2>1, <3>1 DEF Running, Ready
  <2>2. CASE reassessIncident
    <3>1. /\ [job EXCEPT !.incident = SuccessorIncident, !.analysis = "none"].attempt = job.attempt
          /\ [job EXCEPT !.incident = SuccessorIncident, !.analysis = "none"].state = "blocked"
      BY <2>2 DEF reassessIncident, Decides, TypeOK, Job
    <3>. QED
      BY <1>18, <2>2, <3>1 DEF reassessIncident, Running, Ready
  <2>3. CASE cancelHeldJob
    <3>1. /\ [job EXCEPT !.state = "cancelled"].attempt = job.attempt
          /\ [job EXCEPT !.state = "cancelled"].state = "cancelled"
      BY DEF TypeOK, Job
    <3>. QED
      BY <1>18, <2>3, <3>1 DEF cancelHeldJob, Running, Ready
  <2>. QED
    BY <1>19, <2>1, <2>2, <2>3 DEF Operator, approveRecovery, resolveDecision
<1>20. CASE ApplyRecovery
  <2>1. agent' \in {agent, "closed"} /\ UNCHANGED <<orphaned, prompts>>
    BY <1>20 DEF ApplyRecovery, LateWaitMayClose
  <2>2. CASE RecoveryObstacle = "none"
    <3>1. tick' = At(IF job.attempt.handle THEN "retire" ELSE "retry") /\ UNCHANGED job
      BY <1>20, <2>2 DEF ApplyRecovery
    <3>2. CASE job.attempt.handle
      <4>1. agent' \in Alive => agent \in Alive
        BY <2>1 DEF Alive
      <4>. QED
        BY <2>1, <3>1, <3>2, <4>1, QuietKeepsExclusive
    <3>3. CASE ~job.attempt.handle
      <4>1. agent' \notin Alive /\ agent \notin Alive
        BY <2>1, <3>3 DEF Alive, ExclusiveInv, SingleLiveAgent
      <4>. QED
        BY <2>1, <3>1, <3>3, <4>1, TickPoints
        DEF ExclusiveInv, SingleLiveAgent, PromptedAtMostOnce, Attempting
    <3>. QED
      BY <3>2, <3>3
  <2>3. CASE RecoveryObstacle # "none"
    BY <1>20, <2>1, <2>3, BlockKeepsExclusive DEF ApplyRecovery
  <2>. QED
    BY <2>2, <2>3
<1>21. CASE CloseRetiredAttempt
  <2>1. CASE agent' = "closed" /\ tick' = At("retry")
    BY <1>21, <2>1, TickPoints
    DEF CloseRetiredAttempt, ExclusiveInv, SingleLiveAgent, PromptedAtMostOnce, Attempting, Alive
  <2>2. CASE UNCHANGED agent /\ tick' = At("kept")
    BY <1>21, <2>2, QuietKeepsExclusive DEF CloseRetiredAttempt
  <2>. QED
    BY <1>21, <2>1, <2>2 DEF CloseRetiredAttempt
<1>22. CASE SaveFreshLane
  <2>1. agent \notin Alive
    BY <1>22, TickPoints DEF SaveFreshLane, ExclusiveInv
  <2>2. job'.attempt = NoAttempt /\ job'.state \in Ready
    BY <1>22 DEF SaveFreshLane, Saves, FreshLane, TypeOK, Job, Ready, ReadyState
  <2>. QED
    BY <1>22, <2>1, <2>2, TickPoints
    DEF SaveFreshLane, Saves, NoAttempt, ExclusiveInv, SingleLiveAgent, PromptedAtMostOnce,
        Attempting, Running, Ready
<1>23. CASE CloseCancelledAttempt
  <2>1. agent' \notin Alive
    BY <1>23 DEF CloseCancelledAttempt, Alive
  <2>. QED
    BY <1>23, <2>1, QuietKeepsExclusive DEF CloseCancelledAttempt
<1>24. CASE AbandonStaleTick
  BY <1>24, QuietKeepsExclusive DEF AbandonStaleTick
<1>25. CASE Crash
  BY <1>25, QuietKeepsExclusive DEF Crash
<1>26. CASE World \/ UNCHANGED vars
  <2>1. UNCHANGED <<job, tick, orphaned, prompts>>
    BY <1>26 DEF World, AgentEdits, AgentReports, AgentYields, TreeDrifts, OperatorCleansTree, vars
  <2>2. agent' \in Alive => agent \in Alive
    BY <1>26 DEF World, AgentEdits, AgentReports, AgentYields, TreeDrifts, OperatorCleansTree,
       vars, Alive
  <2>. QED
    BY <2>1, <2>2, QuietKeepsExclusive
<1>27. CASE FailPreflight \/ FailToRead \/ EndRefused
  <2>1. agent' \in Alive => agent \in Alive
    BY <1>27 DEF FailPreflight, FailToRead, EndRefused, Alive
  <2>. QED
    BY <1>27, <2>1, QuietKeepsExclusive DEF FailPreflight, FailToRead, EndRefused
<1>. QED
  BY <1>1, <1>2, <1>3, <1>4, <1>5, <1>6, <1>7, <1>8, <1>9, <1>10, <1>11, <1>12, <1>13, <1>14,
     <1>15, <1>16, <1>17, <1>19, <1>20, <1>21, <1>22, <1>23, <1>24, <1>25, <1>26, <1>27
  DEF Next, TickStep, TickEnd

LEMMA ExclusiveInvariant == Spec => []ExclusiveInv
<1>1. Init => ExclusiveInv
  BY TickPoints
  DEF Init, ExclusiveInv, SingleLiveAgent, PromptedAtMostOnce, Attempting, NoAttempt, Alive,
      Running, Ready
<1>. QED
  BY <1>1, TypeCorrect, ExclusiveStep, PTL DEF Spec

\* Whatever is cut short and retried, the worktree never has two live agents.
THEOREM AttemptsAreExclusive == Spec => []SingleLiveAgent
<1>1. ExclusiveInv => SingleLiveAgent
  BY DEF ExclusiveInv
<1>. QED
  BY <1>1, ExclusiveInvariant, PTL

\* Nor is an agent prompted twice: the Attempt is saved as running before its prompt leaves.
THEOREM PromptsAreOnce == Spec => []PromptedAtMostOnce
<1>1. ExclusiveInv => PromptedAtMostOnce
  BY DEF ExclusiveInv
<1>. QED
  BY <1>1, ExclusiveInvariant, PTL

-----------------------------------------------------------------------------
(* Reviewed HEADs.                                                         *)

\* Any save that ends in neither publish_ready nor an accepting tick is harmless
\* to ReviewedInv as long as report and verdicts stand.
LEMMA UnpublishedKeepsReviewed ==
    ASSUME ReviewedInv, UNCHANGED <<report, verdicts>>,
           \/ job' = job
           \/ job'.state # "publish_ready",
           \/ tick' = tick /\ job' = job
           \/ tick' \notin {At("close"), At("settle")}
    PROVE  ReviewedInv'
BY DEF ReviewedInv, PublishedHeadWasReviewed

\* The ticks at which an accepted report is carried are not the idle one.
LEMMA DistinctTicks ==
    /\ Idle \notin {At("close"), At("settle")}
    /\ {At("pane"), At("agent"), At("prompt"), At("advise"), At("retire"), At("retry"),
         At("unready"), At("unread"), At("kept")}
         \intersect {At("close"), At("settle")} = {}
BY DEF Idle, At

\* ReviewedInv is inductive relative to the type invariant.
LEMMA ReviewedStep == TypeOK /\ ReviewedInv /\ [Next]_vars => ReviewedInv'
<1>. SUFFICES ASSUME TypeOK, ReviewedInv, [Next]_vars PROVE ReviewedInv'
  OBVIOUS
<1>. USE DEF runtime, ledger
<1>1. ASSUME NEW lane \in Lane, PrepareAttempt(lane) PROVE ReviewedInv'
  <2>1. job'.state # "publish_ready" /\ tick' = Idle /\ report' = NoResult
    BY <1>1 DEF PrepareAttempt, Saves, TypeOK, Job, RunningState
  <2>. QED
    BY <2>1, DistinctTicks DEF ReviewedInv, PublishedHeadWasReviewed, NoResult
<1>2. ASSUME NEW class, NEW lane, NEW result, NEW rule,
             Saves(Block(job, class, lane, result, rule)), UNCHANGED <<report, verdicts>>
      PROVE  ReviewedInv'
  BY <1>2, BlockKeepsAttempt, UnpublishedKeepsReviewed, DistinctTicks DEF Saves, TypeOK
<1>3. ASSUME NEW transient, Saves(reconcileAttemptOrBlock(job, transient)),
             job.state # "publish_ready", UNCHANGED <<report, verdicts>>
      PROVE  ReviewedInv'
  <2>1. job'.state # "publish_ready"
    BY <1>3, ReconcileKeepsAttempt DEF Saves, TypeOK
  <2>. QED
    BY <1>3, <2>1, UnpublishedKeepsReviewed, DistinctTicks DEF Saves
<1>4. CASE BlockProvenanceDrift
  BY <1>2, <1>4 DEF BlockProvenanceDrift
<1>5. CASE ReviewerValidation
  <2>1. PICK k \in Job :
          /\ ButReceipt(k)
          /\ \/ Saves(k)
             \/ \E class \in BlockClass : Saves(Block(k, class, "reviewer", NoResult, "none"))
    BY <1>5, ValidationSaves DEF TypeOK
  <2>2. k.state = job.state /\ job.state # "publish_ready"
    BY <1>5, <2>1 DEF ReviewerValidation, Driving, RunningState, ButReceipt
  <2>3. job'.state # "publish_ready" /\ tick' = Idle
    BY <2>1, <2>2, BlockKeepsAttempt DEF Saves
  <2>. QED
    BY <1>5, <2>3, UnpublishedKeepsReviewed, DistinctTicks DEF ReviewerValidation
<1>6. CASE BlockReviewerPreflight
  BY <1>2, <1>6 DEF BlockReviewerPreflight
<1>7. CASE CreateAttemptPane
  <2>1. job.state # "publish_ready" /\ UNCHANGED <<report, verdicts>>
    BY <1>7 DEF CreateAttemptPane, PaneMayStart, Driving, RunningState
  <2>2. CASE tick' = At("pane") /\ UNCHANGED job
    BY <2>1, <2>2, UnpublishedKeepsReviewed, DistinctTicks
  <2>. QED
    BY <1>2, <1>3, <1>7, <2>1, <2>2 DEF CreateAttemptPane
<1>8. CASE StartAgent
  <2>1. job.state # "publish_ready" /\ UNCHANGED <<report, verdicts>>
    BY <1>8 DEF StartAgent, Driving, RunningState
  <2>2. CASE tick' = At("agent") /\ UNCHANGED job
    BY <2>1, <2>2, UnpublishedKeepsReviewed, DistinctTicks
  <2>. QED
    BY <1>3, <1>8, <2>1, <2>2 DEF StartAgent
<1>9. ASSUME job'.state = job.state, job'.head = job.head, UNCHANGED <<report, verdicts>>,
             tick' \notin {At("close"), At("settle")}
      PROVE  ReviewedInv'
  BY <1>9 DEF ReviewedInv, PublishedHeadWasReviewed
<1>10. CASE SavePaneReady
  BY <1>9, <1>10, DistinctTicks DEF SavePaneReady, Saves, TypeOK, Job
<1>11. CASE SaveAgentReady
  BY <1>9, <1>11, DistinctTicks DEF SaveAgentReady, Saves, TypeOK, Job
<1>12. CASE PersistRunning
  BY <1>9, <1>12, DistinctTicks DEF PersistRunning, TypeOK, Job
<1>13. CASE Prompt
  BY <1>9, <1>13, DistinctTicks DEF Prompt
<1>14. CASE FinishObservedAttempt
  <2>1. CASE Verdict = "none"
    <3>1. job.attempt.lane = "reviewer" /\ report.kind = "pass" => report.head = job.head
      BY <2>1 DEF Verdict, ReviewBound
    <3>. QED
      BY <1>14, <2>1, <3>1 DEF FinishObservedAttempt, ReviewedInv, PublishedHeadWasReviewed
  <2>2. CASE Verdict # "none"
    <3>1. job'.state = "blocked" /\ tick' = Idle
      BY <1>14, <2>2, ObservedKeepsAttempt, BlockKeepsAttempt
      DEF FinishObservedAttempt, Saves, TypeOK
    <3>. QED
      BY <1>14, <3>1, UnpublishedKeepsReviewed, DistinctTicks DEF FinishObservedAttempt
  <2>. QED
    BY <2>1, <2>2
<1>15. CASE ObserveNothing
  <2>1. job.state # "publish_ready" /\ UNCHANGED <<report, verdicts>>
    BY <1>15 DEF ObserveNothing, Driving, RunningState
  <2>. QED
    BY <1>2, <1>3, <1>15, <2>1 DEF ObserveNothing
<1>16. CASE CloseCompletedAttempt
  <2>1. CASE tick' = [tick EXCEPT !.at = "settle"]
    <3>1. tick' \in {At("close"), At("settle")} => tick = At("close")
      BY <1>16, <2>1 DEF CloseCompletedAttempt, TypeOK, At
    <3>. QED
      BY <1>16, <3>1 DEF CloseCompletedAttempt, ReviewedInv, PublishedHeadWasReviewed
  <2>2. CASE tick' = At("kept")
    BY <1>9, <1>16, <2>2, DistinctTicks DEF CloseCompletedAttempt
  <2>. QED
    BY <1>16, <2>1, <2>2 DEF CloseCompletedAttempt
<1>17. CASE SettleAttempt
  <2>1. /\ tick = At("settle") /\ job' = Settlement(Observed) /\ tick' = Idle
        /\ UNCHANGED <<report, verdicts>>
    BY <1>17 DEF SettleAttempt, Saves
  <2>2. /\ job'.state = "publish_ready" =>
             job.attempt.lane = "reviewer" /\ report.kind = "pass" /\ job'.head = job.head
    <3>1. Observed.attempt.lane \in Lane
      BY ObservedKeepsAttempt DEF TypeOK, Job, Attempt
    <3>. QED
      BY <2>1, <3>1, ObservedKeepsAttempt DEF Settlement, TypeOK, Job, Lane
  <2>. QED
    BY <2>1, <2>2, DistinctTicks DEF ReviewedInv, PublishedHeadWasReviewed
<1>18. CASE AuthorizeProviderRecovery
  <2>1. job'.state = "recovery_approved"
    BY <1>18 DEF AuthorizeProviderRecovery, Saves, authorizeAutomaticRecovery, TypeOK, Job
  <2>. QED
    BY <1>18, <2>1, UnpublishedKeepsReviewed, DistinctTicks DEF AuthorizeProviderRecovery, Saves
<1>19. CASE StartDiagnosis
  BY <1>9, <1>19, DistinctTicks DEF StartDiagnosis
<1>20. CASE RecordAdvice
  <2>1. \/ job'.state = "recovery_approved"
        \/ job'.state = job.state /\ job'.head = job.head
    BY <1>20 DEF RecordAdvice, Saves, authorizeAutomaticRecovery, TypeOK, Job
  <2>. QED
    BY <1>9, <1>20, <2>1, UnpublishedKeepsReviewed, DistinctTicks DEF RecordAdvice, Saves
<1>21. ASSUME NEW next, Decides(next), next.state # "publish_ready" PROVE ReviewedInv'
  <2>1. tick' \in {At("close"), At("settle")} => FALSE
    BY <1>21 DEF Decides, TypeOK, At, Idle
  <2>. QED
    BY <1>21, <2>1, UnpublishedKeepsReviewed DEF Decides
<1>22. CASE Operator
  <2>1. ASSUME NEW basis, NEW action, Decides(HumanApproval(basis, action)) PROVE ReviewedInv'
    <3>1. HumanApproval(basis, action).state = "recovery_approved"
      BY DEF HumanApproval, TypeOK, Job
    <3>. QED
      BY <1>21, <2>1, <3>1
  <2>2. CASE reassessIncident
    <3>1. [job EXCEPT !.incident = SuccessorIncident, !.analysis = "none"].state = "blocked"
      BY <2>2 DEF reassessIncident, Decides, TypeOK, Job
    <3>. QED
      BY <1>21, <2>2, <3>1 DEF reassessIncident
  <2>3. CASE cancelHeldJob
    <3>1. [job EXCEPT !.state = "cancelled"].state = "cancelled"
      BY DEF TypeOK, Job
    <3>. QED
      BY <1>21, <2>3, <3>1 DEF cancelHeldJob
  <2>. QED
    BY <1>22, <2>1, <2>2, <2>3 DEF Operator, approveRecovery, resolveDecision
<1>23. CASE ApplyRecovery
  <2>1. CASE RecoveryObstacle = "none"
    BY <1>9, <1>23, <2>1, DistinctTicks DEF ApplyRecovery
  <2>2. CASE RecoveryObstacle # "none"
    BY <1>2, <1>23, <2>2 DEF ApplyRecovery
  <2>. QED
    BY <2>1, <2>2
<1>24. CASE CloseRetiredAttempt
  BY <1>9, <1>24, DistinctTicks DEF CloseRetiredAttempt
<1>25. CASE SaveFreshLane
  <2>1. job'.state # "publish_ready"
    BY <1>25 DEF SaveFreshLane, Saves, FreshLane, ReadyState, TypeOK, Job
  <2>. QED
    BY <1>25, <2>1, UnpublishedKeepsReviewed, DistinctTicks DEF SaveFreshLane, Saves
<1>26. CASE CloseCancelledAttempt
  BY <1>26, UnpublishedKeepsReviewed DEF CloseCancelledAttempt
<1>27. CASE AbandonStaleTick \/ Crash \/ FailPreflight \/ FailToRead \/ EndRefused
  BY <1>9, <1>27, DistinctTicks DEF AbandonStaleTick, Crash, FailPreflight, FailToRead, EndRefused
<1>28. CASE AgentReports
  <2>1. PICK kind, head :
          /\ report' = [kind |-> kind, head |-> head]
          /\ verdicts' = IF kind = "pass" THEN verdicts \union {head} ELSE verdicts
    BY <1>28 DEF AgentReports
  <2>2. report = NoResult /\ UNCHANGED <<job, tick>>
    BY <1>28 DEF AgentReports
  <2>. QED
    BY <2>1, <2>2 DEF ReviewedInv, PublishedHeadWasReviewed
<1>29. CASE AgentEdits \/ AgentYields \/ TreeDrifts \/ OperatorCleansTree \/ UNCHANGED vars
  BY <1>29, UnpublishedKeepsReviewed
  DEF AgentEdits, AgentYields, TreeDrifts, OperatorCleansTree, vars
<1>. QED
  BY <1>1, <1>4, <1>5, <1>6, <1>7, <1>8, <1>10, <1>11, <1>12, <1>13, <1>14, <1>15, <1>16,
     <1>17, <1>18, <1>19, <1>20, <1>22, <1>23, <1>24, <1>25, <1>26, <1>27, <1>28, <1>29
  DEF Next, TickStep, TickEnd, World

\* A Job leaves for publication only with a HEAD a Reviewer agent passed.
THEOREM ReviewedBeforePublication == Spec => []PublishedHeadWasReviewed
<1>1. Init => ReviewedInv
  BY DistinctTicks DEF Init, ReviewedInv, PublishedHeadWasReviewed, NoResult
<1>2. ReviewedInv => PublishedHeadWasReviewed
  BY DEF ReviewedInv
<1>. QED
  BY <1>1, <1>2, TypeCorrect, ReviewedStep, PTL DEF Spec

-----------------------------------------------------------------------------
(* Incidents, recoveries and what they cost.  A step does one of a few      *)
(* things to the ledger; the parts of RecoveryInv about the ledger are       *)
(* proved of those, the parts about ticks and agents action by action.       *)

\* The Job goes on about the same Attempt: what the recoveries read stays.
GoesOn ==
    /\ UNCHANGED tries
    /\ job'.state = job.state /\ job'.head = job.head /\ job'.round = job.round
    /\ job'.handoff = job.handoff /\ job'.incident = job.incident
    /\ job'.analysis = job.analysis /\ job'.approval = job.approval /\ job'.auto = job.auto
    /\ job'.attempt.id = job.attempt.id /\ job'.attempt.lane = job.attempt.lane
    /\ job'.attempt.head = job.attempt.head /\ job'.attempt.round = job.attempt.round
    /\ job'.attempt = job.attempt \/ job.state \in Running

\* An incident is opened about the Attempt, or about the Controller.
Blocks ==
    /\ UNCHANGED tries
    /\ job.state \in Engaged /\ job'.state = "blocked"
    /\ job'.head = job.head /\ job'.round = job.round /\ job'.auto = job.auto
    /\ job'.attempt.id = job.attempt.id /\ job'.attempt.lane = job.attempt.lane
    /\ job'.attempt.head = job.attempt.head /\ job'.attempt.round = job.attempt.round
    /\ job'.incident.lane \in {job.attempt.lane, "controller"}
    /\ job'.incident.attempt = job.attempt.id

\* A rule authorizes the recovery of the incident.
Authorizes ==
    /\ UNCHANGED tries
    /\ \E advice \in Advice : /\ automaticRecoveryFor(job, advice)
                              /\ job' = authorizeAutomaticRecovery(job, advice)

\* The incident gets an analysis.
Advises ==
    /\ UNCHANGED tries
    /\ job.state = "blocked"
    /\ \E advice \in Advice : job' = [job EXCEPT !.analysis = advice]

\* What ControllerContext.block leaves of the Job, field by field.
LEMMA BlockShape ==
    ASSUME NEW j \in Job, NEW class, NEW lane, NEW result, NEW rule,
           NEW b, b = Block(j, class, lane, result, rule)
    PROVE  /\ b.state = "blocked" /\ b.head = j.head /\ b.round = j.round /\ b.auto = j.auto
           /\ b.attempt.id = j.attempt.id /\ b.attempt.lane = j.attempt.lane
           /\ b.attempt.head = j.attempt.head /\ b.attempt.round = j.attempt.round
           /\ b.incident.lane = lane /\ b.incident.attempt = j.attempt.id
           /\ b.incident.rule = rule
BY DEF Block, Job, Attempt

\* The incident an action opens is about the Attempt the Job is engaged in.
LEMMA BlockBlocks ==
    ASSUME TypeOK, job.state \in Engaged, UNCHANGED tries,
           NEW class, NEW lane \in {job.attempt.lane, "controller"}, NEW result, NEW rule,
           job' = Block(job, class, lane, result, rule)
    PROVE  Blocks /\ job'.incident.rule = rule
BY BlockShape DEF Blocks, TypeOK

\* Observing an Attempt once more either goes on with it or blocks.
LEMMA ReconcileShape ==
    ASSUME TypeOK, job.state \in Running, UNCHANGED tries, NEW transient,
           job' = reconcileAttemptOrBlock(job, transient)
    PROVE  \/ GoesOn
           \/ Blocks /\ job'.incident.rule = automaticRecoveryCandidateForAttempt(job, transient)
<1>1. CASE job.attempt.retries >= MAX_ATTEMPT_RECONCILIATIONS
  <2>1. job' = Block(job, "infrastructure_exhausted", job.attempt.lane, NoResult,
                     automaticRecoveryCandidateForAttempt(job, transient))
    BY <1>1 DEF reconcileAttemptOrBlock
  <2>. QED
    BY <2>1, BlockBlocks DEF Engaged
<1>2. CASE ~(job.attempt.retries >= MAX_ATTEMPT_RECONCILIATIONS)
  <2>1. job' = [job EXCEPT !.attempt.retries = @ + 1]
    BY <1>2 DEF reconcileAttemptOrBlock
  <2>. QED
    BY <2>1 DEF GoesOn, TypeOK, Job, Attempt
<1>. QED
  BY <1>1, <1>2

\* Taking a late result into account leaves all of the Job but its incident.
LEMMA ObservedShape ==
    ASSUME job \in Job
    PROVE  /\ Observed \in Job /\ Observed.state = job.state /\ Observed.head = job.head
           /\ Observed.round = job.round /\ Observed.handoff = job.handoff
           /\ Observed.auto = job.auto /\ Observed.attempt = job.attempt
BY ReconciledType DEF Observed, Reconciled, Job

\* A durable result is only judged while the Job is engaged in its Attempt.
LEMMA VerdictBlocks ==
    ASSUME TypeOK, FinishObservedAttempt, Verdict # "none"
    PROVE  Blocks /\ job'.incident.rule = "none"
<1>1. /\ job' = Block(Observed, Verdict, job.attempt.lane, report, "none")
      /\ job.state \in Engaged /\ UNCHANGED tries
  BY DEF FinishObservedAttempt, Saves, Driving, RunningState, AwaitingLateResult, Engaged,
     Running, Recovering
<1>2. job \in Job
  BY DEF TypeOK
<1>. QED
  BY <1>1, <1>2, ObservedShape, BlockShape DEF Blocks

\* A validation that ends well goes on with the Attempt; any other opens an incident.
LEMMA ValidationShape ==
    ASSUME TypeOK, ReviewerValidation
    PROVE  GoesOn \/ (Blocks /\ job'.incident.rule = "none")
<1>1. job.state \in Running /\ job.attempt.lane = "reviewer" /\ UNCHANGED tries
  BY DEF ReviewerValidation, Driving, RunningState, Running
<1>2. PICK k \in Job :
        /\ ButReceipt(k)
        /\ \/ Saves(k)
           \/ \E class \in BlockClass : Saves(Block(k, class, "reviewer", NoResult, "none"))
  BY ValidationSaves DEF TypeOK
<1>3. CASE Saves(k)
  BY <1>1, <1>2, <1>3 DEF GoesOn, Saves, ButReceipt
<1>4. CASE \E class \in BlockClass : Saves(Block(k, class, "reviewer", NoResult, "none"))
  <2>1. PICK class : job' = Block(k, class, "reviewer", NoResult, "none")
    BY <1>4 DEF Saves
  <2>. QED
    BY <1>1, <1>2, <2>1, BlockShape DEF Blocks, Engaged, ButReceipt
<1>. QED
  BY <1>2, <1>3, <1>4

\* Every step does one of these things to the ledger.
LEMMA Shapes ==
    ASSUME TypeOK, ExclusiveInv, InFlight, [Next]_vars
    PROVE  \/ GoesOn \/ Blocks \/ Authorizes \/ Advises
           \/ \E lane \in Lane : PrepareAttempt(lane)
           \/ SettleAttempt \/ SaveFreshLane \/ Operator
<1>. DEFINE Goal == \/ GoesOn \/ Blocks \/ Authorizes \/ Advises
                    \/ \E lane \in Lane : PrepareAttempt(lane)
                    \/ SettleAttempt \/ SaveFreshLane \/ Operator
<1>0. ASSUME UNCHANGED <<job, tries>> PROVE Goal
  BY <1>0 DEF GoesOn
<1>1. CASE BlockProvenanceDrift
  BY <1>1, BlockBlocks DEF BlockProvenanceDrift, Saves, Engaged, Running
<1>2. CASE ReviewerValidation
  BY <1>2, ValidationShape
<1>3. CASE BlockReviewerPreflight
  BY <1>3, BlockBlocks
  DEF BlockReviewerPreflight, PaneMayStart, Driving, RunningState, Saves, Engaged, Running
<1>4. CASE CreateAttemptPane
  <2>1. job.state \in Running /\ UNCHANGED tries
    BY <1>4 DEF CreateAttemptPane, PaneMayStart, Driving, RunningState, Running
  <2>. QED
    BY <1>0, <1>4, <2>1, ReconcileShape, BlockBlocks DEF CreateAttemptPane, Saves, Engaged
<1>5. CASE StartAgent
  <2>1. job.state \in Running /\ UNCHANGED tries
    BY <1>5 DEF StartAgent, Driving, RunningState, Running
  <2>. QED
    BY <1>0, <1>5, <2>1, ReconcileShape DEF StartAgent, Saves
<1>6. CASE SavePaneReady
  <2>1. job.state \in Running
    BY <1>6 DEF SavePaneReady, ExclusiveInv
  <2>. QED
    BY <1>6, <2>1 DEF SavePaneReady, Saves, GoesOn, TypeOK, Job, Attempt
<1>7. CASE SaveAgentReady
  <2>1. job.state \in Running
    BY <1>7 DEF SaveAgentReady, ExclusiveInv
  <2>. QED
    BY <1>7, <2>1 DEF SaveAgentReady, Saves, GoesOn, TypeOK, Job, Attempt
<1>8. CASE PersistRunning
  <2>1. job.state \in Running
    BY <1>8 DEF PersistRunning, Driving, RunningState, Running
  <2>. QED
    BY <1>8, <2>1 DEF PersistRunning, GoesOn, TypeOK, Job, Attempt
<1>9. CASE FinishObservedAttempt
  <2>1. CASE Verdict = "none"
    BY <1>0, <1>9, <2>1 DEF FinishObservedAttempt
  <2>2. CASE Verdict # "none"
    BY <1>9, <2>2, VerdictBlocks
  <2>. QED
    BY <2>1, <2>2
<1>10. CASE ObserveNothing
  <2>1. job.state \in Running /\ UNCHANGED tries
    BY <1>10 DEF ObserveNothing, Driving, RunningState, Running
  <2>. QED
    BY <1>10, <2>1, ReconcileShape, BlockBlocks DEF ObserveNothing, Saves, Engaged
<1>11. CASE AuthorizeProviderRecovery
  BY <1>11 DEF AuthorizeProviderRecovery, Saves, Authorizes, Advice
<1>12. CASE RecordAdvice
  <2>1. PICK advice \in Advice :
          job' = IF automaticRecoveryFor(job, advice)
                   THEN authorizeAutomaticRecovery(job, advice)
                   ELSE [job EXCEPT !.analysis = advice]
    BY <1>12 DEF RecordAdvice, Saves, Advice
  <2>2. job.state = "blocked"
    BY <1>12 DEF RecordAdvice, InFlight
  <2>. QED
    BY <1>12, <2>1, <2>2 DEF RecordAdvice, Authorizes, Advises
<1>13. CASE ApplyRecovery
  <2>1. CASE RecoveryObstacle = "none"
    BY <1>0, <1>13, <2>1 DEF ApplyRecovery
  <2>2. CASE RecoveryObstacle # "none"
    BY <1>13, <2>2, BlockBlocks DEF ApplyRecovery, Loads, Saves, Engaged, Recovering
  <2>. QED
    BY <2>1, <2>2
<1>14. CASE \/ StartDiagnosis \/ CloseCancelledAttempt \/ Prompt \/ CloseCompletedAttempt
            \/ CloseRetiredAttempt \/ AbandonStaleTick \/ Crash \/ World \/ UNCHANGED vars
            \/ FailPreflight \/ FailToRead \/ EndRefused
  <2>1. UNCHANGED <<job, tries>>
    BY <1>14
    DEF StartDiagnosis, CloseCancelledAttempt, Prompt, CloseCompletedAttempt,
        CloseRetiredAttempt, AbandonStaleTick, Crash, World, AgentEdits, AgentReports,
        AgentYields, TreeDrifts, OperatorCleansTree, FailPreflight, FailToRead, EndRefused,
        ledger, vars
  <2>. QED
    BY <1>0, <2>1
<1>. QED
  BY <1>1, <1>2, <1>3, <1>4, <1>5, <1>6, <1>7, <1>8, <1>9, <1>10, <1>11, <1>12, <1>13, <1>14
  DEF Next, TickStep, TickEnd

\* What the recoveries and their cost rest on in the ledger.
LedgerInv == AboutAttempt /\ RecoveriesBind /\ BudgetInv /\ RoundsInv

\* Lanes and their states are told apart.
LEMMA LaneStates ==
    /\ ReadyState("worker") = "worker_ready" /\ ReadyState("reviewer") = "reviewer_ready"
    /\ RunningState("worker") = "worker_running" /\ RunningState("reviewer") = "reviewer_running"
    /\ Lane = {"worker", "reviewer"}
    /\ \A action : RetryLane(action) \in Lane
BY DEF ReadyState, RunningState, Lane, RetryLane

\* Two rules are spent at most.
LEMMA SpentBounds == \A lane : Spent(lane) \in 0..2
<1>. \A lane, rule : Once(lane, rule) \in {0, 1}
  BY DEF Once
<1>. QED
  BY DEF Spent

\* What is spent is about the HEAD and the authorizations given on it.
LEMMA SpentStays ==
    ASSUME job'.head = job.head, job'.auto = job.auto
    PROVE  \A lane : Spent(lane)' = Spent(lane)
BY DEF Spent, Once

\* A Job that goes on about its Attempt keeps what its recoveries rest on.
LEMMA GoesOnKeeps == ASSUME TypeOK, LedgerInv, GoesOn PROVE LedgerInv'
<1>1. AboutAttempt'
  BY DEF GoesOn, LedgerInv, AboutAttempt, Attempting
<1>2. RecoveriesBind'
  <2>1. ApprovalStaysBound'
    <3>1. CASE job.state = "recovery_approved"
      <4>1. job'.attempt = job.attempt
        BY <3>1 DEF GoesOn, Running
      <4>. QED
        BY <3>1, <4>1
        DEF GoesOn, LedgerInv, RecoveriesBind, ApprovalStaysBound, ApprovalBinds, FingerprintOf,
            FreshReviewerBinds, isDecisionResolutionEligible, Attempting
    <3>. QED
      BY <3>1 DEF GoesOn, ApprovalStaysBound
  <2>2. HandoffAlwaysBinds'
    BY DEF GoesOn, LedgerInv, RecoveriesBind, HandoffAlwaysBinds, HandoffBinds
  <2>. QED
    BY <2>1, <2>2 DEF RecoveriesBind
<1>3. BudgetInv'
  BY SpentStays DEF GoesOn, LedgerInv, BudgetInv, BoundedUnattendedAttempts, Reviewing
<1>4. RoundsInv'
  BY DEF GoesOn, LedgerInv, RoundsInv, ReviewRoundsBounded
<1>. QED
  BY <1>1, <1>2, <1>3, <1>4 DEF LedgerInv

\* The states of an incident are not those of a lane.
LEMMA RecoveringIsApart ==
    /\ "blocked" \in Engaged /\ "recovery_approved" \in Engaged
    /\ \A lane : /\ ReadyState(lane) \notin Engaged
                 /\ RunningState(lane) \in Running /\ RunningState(lane) \notin Recovering
BY DEF Engaged, Running, Recovering, ReadyState, RunningState

\* Opening an incident costs nothing and binds nothing.
LEMMA BlocksKeeps == ASSUME TypeOK, LedgerInv, Blocks PROVE LedgerInv'
<1>1. AboutAttempt'
  BY LaneStates DEF Blocks, LedgerInv, AboutAttempt, Attempting
<1>2. RecoveriesBind'
  BY DEF Blocks, RecoveriesBind, ApprovalStaysBound, HandoffAlwaysBinds, ReadyState
<1>3. BudgetInv'
  <2>1. Reviewing' => Reviewing
    BY DEF Blocks, Reviewing
  <2>. QED
    BY <2>1, SpentStays, LaneStates, RecoveringIsApart
    DEF Blocks, LedgerInv, BudgetInv, BoundedUnattendedAttempts
<1>4. RoundsInv'
  BY DEF Blocks, Engaged, Running, Recovering, LedgerInv, RoundsInv, ReviewRoundsBounded
<1>. QED
  BY <1>1, <1>2, <1>3, <1>4 DEF LedgerInv

\* An analysis changes what the operator may decide, and nothing else.
LEMMA AdvisesKeeps == ASSUME TypeOK, LedgerInv, Advises PROVE LedgerInv'
<1>1. /\ job'.state = "blocked" /\ job'.head = job.head /\ job'.round = job.round
      /\ job'.attempt = job.attempt /\ job'.incident = job.incident
      /\ job'.auto = job.auto /\ UNCHANGED tries /\ job.state = "blocked"
  BY DEF Advises, TypeOK, Job
<1>2. AboutAttempt'
  BY <1>1 DEF LedgerInv, AboutAttempt, Attempting
<1>3. RecoveriesBind'
  BY <1>1 DEF RecoveriesBind, ApprovalStaysBound, HandoffAlwaysBinds, ReadyState
<1>4. BudgetInv'
  BY <1>1, SpentStays DEF LedgerInv, BudgetInv, BoundedUnattendedAttempts, Reviewing
<1>5. RoundsInv'
  BY <1>1 DEF LedgerInv, RoundsInv, ReviewRoundsBounded
<1>. QED
  BY <1>2, <1>3, <1>4, <1>5 DEF LedgerInv

\* One more authorization of a rule that counts for a lane is one more spent on it.
LEMMA SpentGrows ==
    ASSUME NEW lane, NEW rule \in {"provider_pre_side_effect_transient", LaneRule(lane)},
           job'.head = job.head,
           [rule |-> rule, lane |-> lane, head |-> job.head] \notin job.auto,
           job'.auto = job.auto \union {[rule |-> rule, lane |-> lane, head |-> job.head]}
    PROVE  Spent(lane)' = Spent(lane) + 1
<1>1. "provider_pre_side_effect_transient" # LaneRule(lane)
  BY DEF LaneRule
<1>2. ASSUME NEW r
      PROVE  [rule |-> r, lane |-> lane, head |-> job.head] \in job'.auto
             <=> r = rule \/ [rule |-> r, lane |-> lane, head |-> job.head] \in job.auto
  <2>1. /\ [rule |-> r, lane |-> lane, head |-> job.head].rule = r
        /\ [rule |-> rule, lane |-> lane, head |-> job.head].rule = rule
    OBVIOUS
  <2>. QED
    BY <2>1
<1>3. \A r : Once(lane, r)' = IF r = rule THEN 1 ELSE Once(lane, r)
  BY <1>2 DEF Once
<1>4. Once(lane, rule) = 0
  BY DEF Once
<1>5. \A r : Once(lane, r) \in {0, 1}
  BY DEF Once
<1>6. LaneRule(lane)' = LaneRule(lane)
  BY DEF LaneRule
<1>7. Spent(lane)' = Once(lane, "provider_pre_side_effect_transient")' + Once(lane, LaneRule(lane))'
  BY <1>6 DEF Spent
<1>. QED
  BY <1>1, <1>3, <1>4, <1>5, <1>7 DEF Spent

\* A rule is only spent on the lane and the HEAD it authorizes an Attempt for, and only
\* once: the Attempt it pays for is one more on both sides of the account.
LEMMA AuthorizesKeeps == ASSUME TypeOK, LedgerInv, Authorizes PROVE LedgerInv'
<1>1. PICK advice \in Advice : /\ automaticRecoveryFor(job, advice)
                               /\ job' = authorizeAutomaticRecovery(job, advice)
  BY DEF Authorizes
<1>a. PICK lane \in Lane : lane = job.attempt.lane
  BY DEF TypeOK, Job, Attempt
<1>b. PICK rule : rule = job.incident.rule
  OBVIOUS
<1>c. PICK action : action = RuleAction(rule, lane)
  OBVIOUS
<1>2. /\ job'.state = "recovery_approved" /\ job'.head = job.head /\ job'.round = job.round
      /\ job'.attempt = job.attempt /\ job'.incident = job.incident
      /\ job'.auto = job.auto \union {FingerprintOf(job)}
      /\ job'.approval = [basis |-> "policy_rule", incident |-> job.incident.id,
                          action |-> action, rule |-> rule, consumed |-> FALSE]
      /\ UNCHANGED tries
  BY <1>1, <1>a, <1>b, <1>c DEF authorizeAutomaticRecovery, TypeOK, Job, Authorizes
<1>3. /\ job.state = "blocked" /\ rule # "none" /\ action \in retryActions(job.incident)
      /\ job.incident.attempt = job.attempt.id /\ job.incident.lane = lane
      /\ job.incident.class = "infrastructure_exhausted"
      /\ FingerprintOf(job) \notin job.auto
      /\ rule = "worker_pre_dispatch_infrastructure" => lane = "worker"
      /\ rule = "reviewer_same_head_infrastructure" => lane = "reviewer"
  BY <1>1, <1>a, <1>b, <1>c DEF automaticRecoveryFor
<1>4. rule \in {"provider_pre_side_effect_transient", LaneRule(lane)}
  BY <1>3, <1>b DEF TypeOK, Job, Incident, Rule, LaneRule
<1>5. RetryLane(action) = lane
  BY <1>3, <1>4, <1>c DEF RuleAction, RetryLane, Lane
<1>6. Attempting(job) /\ job.attempt.head = job.head
  BY <1>3, RecoveringIsApart DEF LedgerInv, AboutAttempt
<1>7. FingerprintOf(job) = [rule |-> rule, lane |-> lane, head |-> job.head]
  BY <1>6, <1>a, <1>b DEF FingerprintOf
<1>8. /\ job'.attempt.lane = lane /\ job'.approval.action = action
      /\ job'.approval.basis = "policy_rule" /\ job'.incident.rule = rule
  BY <1>2, <1>a, <1>b
<1>9. AboutAttempt'
  BY <1>2, <1>3, <1>5, <1>6, <1>8, RecoveringIsApart, LaneStates
  DEF AboutAttempt, Attempting, LedgerInv
<1>10. RecoveriesBind'
  <2>1. ApprovalBinds'
    BY <1>2, <1>3, <1>8 DEF ApprovalBinds, FingerprintOf
  <2>2. job'.approval.action = "retry_fresh_reviewer" => FreshReviewerBinds'
    BY <1>2, <1>3, <1>5, <1>8 DEF FreshReviewerBinds, RetryLane
  <2>. QED
    BY <1>2, <2>1, <2>2 DEF RecoveriesBind, ApprovalStaysBound, HandoffAlwaysBinds, ReadyState
<1>11. BudgetInv'
  <2>1. Spent(lane)' = Spent(lane) + 1
    BY <1>2, <1>3, <1>4, <1>7, SpentGrows
  <2>2. tries[lane] <= Spent(lane) + 1
    BY <1>3, <1>a, RecoveringIsApart DEF LedgerInv, BudgetInv
  <2>3. tries[lane] \in Nat /\ Spent(lane) \in Nat
    BY SpentBounds DEF TypeOK
  <2>4. tries'[lane] <= Spent(lane)' /\ tries'[lane] <= Spent(lane)' + 1
    BY <1>2, <2>1, <2>2, <2>3
  <2>5. Reviewing' => Reviewing
    BY <1>2, <1>3, RecoveringIsApart DEF Reviewing
  <2>6. /\ (job.state = "recovery_approved"
           => tries[RetryLane(job.approval.action)] <= Spent(RetryLane(job.approval.action)))'
        /\ (job.state \in Engaged => tries[job.attempt.lane] <= Spent(job.attempt.lane) + 1)'
    BY <1>5, <1>8, <2>4
  <2>7. (\A l \in Lane : job.state = ReadyState(l) => tries[l] <= Spent(l))'
    BY <1>2 DEF ReadyState
  <2>8. BoundedUnattendedAttempts' /\ (Reviewing' => tries'["worker"] = 0)
    BY <1>2, <2>5 DEF LedgerInv, BudgetInv, BoundedUnattendedAttempts
  <2>. QED
    BY <2>6, <2>7, <2>8 DEF BudgetInv
<1>12. RoundsInv'
  BY <1>2, <1>3 DEF LedgerInv, RoundsInv, ReviewRoundsBounded
<1>. QED
  BY <1>9, <1>10, <1>11, <1>12 DEF LedgerInv

\* A fresh Attempt is one the account of its lane still has room for.
LEMMA PrepareKeeps ==
    ASSUME TypeOK, LedgerInv, NEW lane \in Lane, PrepareAttempt(lane)
    PROVE  LedgerInv'
<1>1. /\ job'.state = RunningState(lane) /\ job'.head = job.head /\ job'.round = job.round
      /\ job'.auto = job.auto /\ job'.attempt.id # 0 /\ job'.attempt.lane = lane
      /\ job'.attempt.head = job.head /\ job'.attempt.round = job.round + 1
  <2>1. PICK receipt :
          job' = [job EXCEPT
           !.state = RunningState(lane),
           !.attempt = [NoAttempt EXCEPT
               !.id = NextName(job.incident.attempt), !.lane = lane, !.phase = "prepared",
               !.round = job.round + 1, !.head = job.head, !.receipt = receipt],
           !.handoff = NoHandoff]
    BY DEF PrepareAttempt, Saves
  <2>2. NextName(job.incident.attempt) # 0
    BY DEF NextName
  <2>. QED
    BY <2>1, <2>2 DEF TypeOK, Job, NoAttempt
<1>2. job.state = ReadyState(lane) /\ tries' = [tries EXCEPT ![lane] = @ + 1]
  BY DEF PrepareAttempt, Loads
<1>3. tries \in [Lane -> Nat] /\ Spent(lane) \in 0..2
  BY SpentBounds DEF TypeOK
<1>4. tries'[lane] = tries[lane] + 1 /\ \A l \in Lane : l # lane => tries'[l] = tries[l]
  BY <1>2, <1>3
<1>5. tries[lane] <= Spent(lane) /\ tries[lane] \in Nat
  BY <1>2, <1>3 DEF LedgerInv, BudgetInv
<1>6. AboutAttempt'
  BY <1>1, LaneStates, RecoveringIsApart DEF AboutAttempt, Attempting, Recovering
<1>7. RecoveriesBind'
  BY <1>1, LaneStates DEF RecoveriesBind, ApprovalStaysBound, HandoffAlwaysBinds
<1>8. BudgetInv'
  <2>1. BoundedUnattendedAttempts'
    BY <1>3, <1>4, <1>5 DEF LedgerInv, BudgetInv, BoundedUnattendedAttempts
  <2>2. tries'[lane] <= Spent(lane)' + 1
    BY <1>1, <1>3, <1>4, <1>5, SpentStays
  <2>3. Reviewing' => tries'["worker"] = 0
    BY <1>1, <1>2, <1>4, LaneStates DEF Reviewing, LedgerInv, BudgetInv
  <2>. QED
    BY <1>1, <2>1, <2>2, <2>3, LaneStates DEF BudgetInv
<1>9. RoundsInv'
  <2>1. job.round < MaxReviewRounds /\ job.round \in Nat
    BY <1>2, LaneStates DEF LedgerInv, RoundsInv, TypeOK, Job
  <2>. QED
    BY <1>1, <2>1 DEF RoundsInv, ReviewRoundsBounded
<1>. QED
  BY <1>6, <1>7, <1>8, <1>9 DEF LedgerInv

\* What an incident may be retried with says which lane it is about.
LEMMA ReviewerRetries ==
    ASSUME NEW incident, "retry_fresh_reviewer" \in retryActions(incident)
    PROVE  /\ incident.class \in {"infrastructure_exhausted", "reviewer_preflight_dirty",
                                  "validation_infrastructure"}
           /\ incident.lane = "reviewer"
BY DEF retryActions, allowedActionsFor

\* The word of a human binds as it is given, and empties the account.
LEMMA OperatorKeeps == ASSUME TypeOK, LedgerInv, Operator PROVE LedgerInv'
<1>1. ASSUME NEW basis \in {"analyst_advice", "human_decision"},
             NEW action \in retryActions(job.incident),
             Decides(HumanApproval(basis, action)), tries' = [l \in Lane |-> 0],
             basis = "analyst_advice" => Recommends(job.analysis),
             basis = "human_decision" => isDecisionResolutionEligible(job)
      PROVE  LedgerInv'
  <2>1. /\ job'.state = "recovery_approved" /\ job'.head = job.head /\ job'.round = job.round
        /\ job'.attempt = job.attempt /\ job'.incident = job.incident
        /\ job'.analysis = job.analysis /\ job'.auto = job.auto
        /\ job'.approval = [basis |-> basis, incident |-> job.incident.id, action |-> action,
                            rule |-> "none", consumed |-> FALSE]
    BY <1>1 DEF Decides, HumanApproval, TypeOK, Job
  <2>2. job.state = "blocked"
    BY <1>1 DEF Decides
  <2>3. job'.approval.basis # "policy_rule" /\ job'.approval.action = action
    BY <2>1
  <2>4. AboutAttempt'
    BY <2>1, <2>2, <2>3, RecoveringIsApart, LaneStates
    DEF AboutAttempt, Attempting, LedgerInv, Recovering
  <2>5. ApprovalBinds'
    BY <1>1, <2>1, <2>3 DEF ApprovalBinds, isDecisionResolutionEligible, Attempting
  <2>6. job'.approval.action = "retry_fresh_reviewer" => FreshReviewerBinds'
    BY <1>1, <2>1, <2>2, <2>3, ReviewerRetries
    DEF FreshReviewerBinds, LedgerInv, AboutAttempt, Recovering
  <2>7. RecoveriesBind'
    BY <2>1, <2>5, <2>6 DEF RecoveriesBind, ApprovalStaysBound, HandoffAlwaysBinds, ReadyState
  <2>8. BudgetInv'
    <3>1. \A lane \in Lane : tries'[lane] = 0 /\ Spent(lane)' \in 0..2
      BY <1>1, <2>1, SpentBounds, SpentStays
    <3>2. job'.attempt.lane \in Lane
      BY <2>1 DEF TypeOK, Job, Attempt
    <3>. QED
      BY <3>1, <3>2, LaneStates DEF BudgetInv, BoundedUnattendedAttempts
  <2>9. RoundsInv'
    BY <2>1, <2>2 DEF LedgerInv, RoundsInv, ReviewRoundsBounded
  <2>. QED
    BY <2>4, <2>7, <2>8, <2>9 DEF LedgerInv
<1>2. CASE approveRecovery
  BY <1>1, <1>2 DEF approveRecovery
<1>3. CASE resolveDecision
  <2>1. "retry_fresh_worker" \in retryActions(job.incident)
    BY <1>3 DEF resolveDecision, isDecisionResolutionEligible, retryActions, allowedActionsFor
  <2>. QED
    BY <1>1, <1>3, <2>1 DEF resolveDecision
<1>4. CASE reassessIncident
  <2>1. /\ job.state = "blocked" /\ job'.state = "blocked" /\ job'.head = job.head
        /\ job'.round = job.round /\ job'.attempt = job.attempt /\ job'.auto = job.auto
        /\ job'.incident.lane = job.incident.lane /\ job'.incident.attempt = job.incident.attempt
        /\ UNCHANGED tries
    BY <1>4 DEF reassessIncident, Decides, SuccessorIncident, TypeOK, Job, Incident
  <2>2. AboutAttempt'
    BY <2>1, LaneStates DEF AboutAttempt, Attempting, LedgerInv, Recovering
  <2>3. RecoveriesBind'
    BY <2>1 DEF RecoveriesBind, ApprovalStaysBound, HandoffAlwaysBinds, ReadyState
  <2>4. BudgetInv'
    BY <2>1, SpentStays DEF LedgerInv, BudgetInv, BoundedUnattendedAttempts, Reviewing
  <2>5. RoundsInv'
    BY <2>1 DEF LedgerInv, RoundsInv, ReviewRoundsBounded
  <2>. QED
    BY <2>2, <2>3, <2>4, <2>5 DEF LedgerInv
<1>5. CASE cancelHeldJob
  <2>1. /\ job.state = "blocked" /\ job'.state = "cancelled" /\ job'.round = job.round
        /\ job'.attempt = job.attempt /\ UNCHANGED tries
    BY <1>5 DEF cancelHeldJob, Decides, TypeOK, Job
  <2>2. AboutAttempt' /\ RecoveriesBind'
    BY <2>1, LaneStates
    DEF AboutAttempt, Engaged, Running, Recovering, RecoveriesBind, ApprovalStaysBound,
        HandoffAlwaysBinds
  <2>3. BudgetInv'
    BY <2>1, LaneStates
    DEF LedgerInv, BudgetInv, BoundedUnattendedAttempts, Reviewing, Engaged, Running, Recovering
  <2>4. RoundsInv'
    BY <2>1 DEF LedgerInv, RoundsInv, ReviewRoundsBounded
  <2>. QED
    BY <2>2, <2>3, <2>4 DEF LedgerInv
<1>. QED
  BY <1>2, <1>3, <1>4, <1>5 DEF Operator

\* An approved recovery leaves a handoff its lane can bind and an Attempt its account
\* has room for; a Reviewer is only started afresh while the Worker's account is empty.
LEMMA FreshLaneKeeps == ASSUME TypeOK, LedgerInv, InFlight, SaveFreshLane PROVE LedgerInv'
<1>a. PICK lane \in Lane : lane = RetryLane(job.approval.action)
  BY LaneStates
<1>1. /\ job'.state = ReadyState(lane) /\ job'.head = job.head /\ job'.round = job.round
      /\ job'.attempt = NoAttempt /\ job'.auto = job.auto /\ UNCHANGED tries
      /\ job'.handoff.lane = lane /\ job'.handoff.head = job.head
  BY <1>a DEF SaveFreshLane, Saves, FreshLane, TypeOK, Job
<1>2. job.state = "recovery_approved"
  BY DEF SaveFreshLane, InFlight
<1>3. lane = "reviewer" => job.attempt.lane = "reviewer"
  BY <1>a, <1>2
  DEF RetryLane, LedgerInv, RecoveriesBind, ApprovalStaysBound, FreshReviewerBinds
<1>4. AboutAttempt'
  BY <1>1, LaneStates, RecoveringIsApart DEF AboutAttempt, Engaged, Running, Recovering
<1>5. RecoveriesBind'
  BY <1>1, LaneStates
  DEF RecoveriesBind, ApprovalStaysBound, HandoffAlwaysBinds, HandoffBinds
<1>6. BudgetInv'
  <2>1. tries[lane] <= Spent(lane)
    BY <1>a, <1>2 DEF LedgerInv, BudgetInv
  <2>2. Reviewing' => Reviewing
    BY <1>1, <1>2, <1>3, LaneStates, RecoveringIsApart DEF Reviewing
  <2>3. job'.state \notin Engaged
    BY <1>1, RecoveringIsApart
  <2>4. \A l \in Lane : job'.state = ReadyState(l) => l = lane
    BY <1>1, LaneStates
  <2>. QED
    BY <1>1, <2>1, <2>2, <2>3, <2>4, SpentStays, RecoveringIsApart
    DEF LedgerInv, BudgetInv, BoundedUnattendedAttempts
<1>7. RoundsInv'
  BY <1>1, <1>2 DEF LedgerInv, RoundsInv, ReviewRoundsBounded, NoAttempt
<1>. QED
  BY <1>4, <1>5, <1>6, <1>7 DEF LedgerInv

\* A settled Worker opens a new account, on a new HEAD; a settled Reviewer either lets
\* the HEAD go, or sends it back below the maximum of rounds with the Worker's empty.
LEMMA SettleKeeps == ASSUME TypeOK, LedgerInv, InFlight, SettleAttempt PROVE LedgerInv'
<1>1. job' = Settlement(Observed) /\ tick = At("settle")
  BY DEF SettleAttempt, Saves
<1>2. /\ job.state \in Engaged
      /\ job.attempt.lane = "reviewer" /\ report.kind # "pass" => job.attempt.round < MaxReviewRounds
  BY <1>1 DEF InFlight
<1>3. /\ job.round < MaxReviewRounds /\ job.attempt.round <= MaxReviewRounds
      /\ tries["worker"] = 0 \/ job.attempt.lane = "worker"
      /\ \A l \in Lane : tries[l] <= 3
  BY <1>2, LaneStates
  DEF LedgerInv, RoundsInv, ReviewRoundsBounded, BudgetInv, BoundedUnattendedAttempts, Reviewing,
      Engaged, Running, Recovering, TypeOK, Job, Attempt
<1>4. \A lane \in Lane : Spent(lane)' \in 0..2
  BY SpentBounds DEF Spent, Once
<1>5. CASE job.attempt.lane = "worker"
  <2>1. /\ job'.state = "reviewer_ready" /\ job'.attempt = NoAttempt
        /\ job'.handoff = NoHandoff /\ job'.round = job.round
    BY <1>1, <1>5, ObservedShape DEF Settlement, TypeOK, Job
  <2>2. tries' = [l \in Lane |-> 0]
    BY <1>5 DEF SettleAttempt
  <2>3. AboutAttempt' /\ RecoveriesBind'
    BY <2>1, LaneStates
    DEF AboutAttempt, Engaged, Running, Recovering, RecoveriesBind, ApprovalStaysBound,
        HandoffAlwaysBinds, HandoffBinds
  <2>4. BudgetInv'
    BY <1>4, <2>1, <2>2, LaneStates
    DEF BudgetInv, BoundedUnattendedAttempts, Engaged, Running, Recovering
  <2>5. RoundsInv'
    BY <1>3, <2>1 DEF RoundsInv, ReviewRoundsBounded, NoAttempt, TypeOK, Job
  <2>. QED
    BY <2>3, <2>4, <2>5 DEF LedgerInv
<1>6. CASE job.attempt.lane = "reviewer" /\ report.kind = "pass"
  <2>1. /\ job'.state = "publish_ready" /\ job'.attempt = NoAttempt
        /\ job'.round = job.attempt.round
    BY <1>1, <1>6, ObservedShape DEF Settlement, TypeOK, Job
  <2>2. UNCHANGED tries
    BY <1>6 DEF SettleAttempt
  <2>3. AboutAttempt' /\ RecoveriesBind'
    BY <2>1, LaneStates
    DEF AboutAttempt, Engaged, Running, Recovering, RecoveriesBind, ApprovalStaysBound,
        HandoffAlwaysBinds
  <2>4. BudgetInv'
    BY <1>3, <2>1, <2>2, LaneStates
    DEF BudgetInv, BoundedUnattendedAttempts, Reviewing, Engaged, Running, Recovering
  <2>5. RoundsInv'
    BY <1>3, <2>1 DEF RoundsInv, ReviewRoundsBounded, NoAttempt
  <2>. QED
    BY <2>3, <2>4, <2>5 DEF LedgerInv
<1>7. CASE job.attempt.lane = "reviewer" /\ report.kind # "pass"
  <2>1. /\ job'.state = "worker_ready" /\ job'.attempt = NoAttempt
        /\ job'.round = job.attempt.round /\ job'.head = job.head
        /\ job'.handoff.lane = "worker" /\ job'.handoff.head = job.head
    BY <1>1, <1>7, ObservedShape DEF Settlement, TypeOK, Job
  <2>2. UNCHANGED tries
    BY <1>7 DEF SettleAttempt
  <2>3. AboutAttempt' /\ RecoveriesBind'
    BY <2>1, LaneStates
    DEF AboutAttempt, Engaged, Running, Recovering, RecoveriesBind, ApprovalStaysBound,
        HandoffAlwaysBinds, HandoffBinds
  <2>4. BudgetInv'
    BY <1>3, <1>4, <1>7, <2>1, <2>2, LaneStates
    DEF BudgetInv, BoundedUnattendedAttempts, Reviewing, Engaged, Running, Recovering
  <2>5. RoundsInv'
    BY <1>2, <1>3, <1>7, <2>1 DEF RoundsInv, ReviewRoundsBounded, NoAttempt
  <2>. QED
    BY <2>3, <2>4, <2>5 DEF LedgerInv
<1>. QED
  BY <1>5, <1>6, <1>7 DEF TypeOK, Job, Attempt, Lane

\* What a tick in flight was started for stands until it saves or is given up.
LEMMA InFlightStep ==
    TypeOK /\ ExclusiveInv /\ AboutAttempt /\ DispatchInv /\ InFlight /\ [Next]_vars => InFlight'
<1>. SUFFICES ASSUME TypeOK, ExclusiveInv, AboutAttempt, DispatchInv, InFlight, [Next]_vars
              PROVE  InFlight'
  OBVIOUS
<1>. USE DEF runtime, ledger
<1>1. ASSUME tick' \notin {At("advise"), At("retire"), At("retry"), At("close"), At("settle")}
      PROVE  InFlight'
  BY <1>1 DEF InFlight
<1>2. ASSUME tick' = Idle PROVE InFlight'
  BY <1>1, <1>2 DEF Idle, At
<1>3. ASSUME ~tick'.fresh PROVE InFlight'
  BY <1>1, <1>3, TickPoints
<1>4. ASSUME UNCHANGED <<job, tick, report>> PROVE InFlight'
  BY <1>4 DEF InFlight
<1>14. ASSUME tick' \in {At("unready"), At("unread"), At("kept")} PROVE InFlight'
  BY <1>1, <1>14 DEF At
<1>5. CASE CreateAttemptPane \/ StartAgent \/ PersistRunning
  <2>1. tick' \in {Idle, At("pane"), At("agent"), At("prompt")}
    BY <1>5 DEF CreateAttemptPane, StartAgent, PersistRunning, Saves
  <2>. QED
    BY <1>1, <1>2, <2>1 DEF At
<1>6. CASE FinishObservedAttempt
  <2>1. CASE Verdict = "none"
    <3>1. tick' = At("close") /\ UNCHANGED <<job, report>> /\ report # NoResult
      BY <1>6, <2>1 DEF FinishObservedAttempt
    <3>2. job.state \in Engaged
      BY <1>6 DEF FinishObservedAttempt, Driving, RunningState, AwaitingLateResult, Engaged,
         Running, Recovering
    <3>3. job.attempt.lane = "reviewer" => report.kind \in ReviewerReport
      BY <3>1, <3>2 DEF AboutAttempt, DispatchInv
    <3>4. job.attempt.lane = "reviewer" /\ report.kind # "pass" => job.attempt.round < MaxReviewRounds
      BY <2>1, <3>3 DEF Verdict, ReviewerReport, TypeOK, Job, Attempt
    <3>5. At("close") \notin {At("advise"), At("retire"), At("retry")}
      BY DEF At
    <3>. QED
      BY <3>1, <3>2, <3>4, <3>5 DEF InFlight
  <2>2. CASE Verdict # "none"
    BY <1>2, <1>6, <2>2 DEF FinishObservedAttempt, Saves
  <2>. QED
    BY <2>1, <2>2
<1>7. CASE CloseCompletedAttempt
  <2>1. CASE tick' = [tick EXCEPT !.at = "settle"]
    <3>1. tick' = At("settle") => tick = At("close")
      BY <1>7, <2>1 DEF CloseCompletedAttempt, TypeOK, At
    <3>2. tick' \notin {At("advise"), At("retire"), At("retry"), At("close")}
      BY <1>7, <2>1 DEF CloseCompletedAttempt, TypeOK, At
    <3>. QED
      BY <1>7, <3>1, <3>2 DEF CloseCompletedAttempt, InFlight
  <2>. QED
    BY <1>7, <1>14, <2>1 DEF CloseCompletedAttempt
<1>8. CASE StartDiagnosis
  <2>1. tick' = At("advise") /\ job'.state = "blocked"
    BY <1>8 DEF StartDiagnosis, Loads
  <2>2. At("advise") \notin {At("retire"), At("retry"), At("close"), At("settle")}
    BY DEF At
  <2>. QED
    BY <2>1, <2>2 DEF InFlight
<1>9. CASE ApplyRecovery \/ CloseRetiredAttempt
  <2>1. \/ tick' \in {Idle, At("kept")}
        \/ tick' \in {At("retire"), At("retry")} /\ job'.state = "recovery_approved"
    BY <1>9 DEF ApplyRecovery, CloseRetiredAttempt, Loads, Saves, InFlight
  <2>2. {At("retire"), At("retry")} \intersect {At("advise"), At("close"), At("settle")} = {}
    BY DEF At
  <2>. QED
    BY <1>2, <1>14, <2>1, <2>2 DEF InFlight
<1>10. CASE Operator
  <2>1. \E next : Decides(next)
    BY <1>10 DEF Operator, approveRecovery, resolveDecision, reassessIncident, cancelHeldJob
  <2>. QED
    BY <1>2, <1>3, <2>1 DEF Decides, TypeOK, Idle
<1>11. CASE World \/ UNCHANGED vars \/ CloseCancelledAttempt
  <2>1. CASE UNCHANGED report
    BY <1>4, <1>11, <2>1
    DEF World, AgentEdits, AgentReports, AgentYields, TreeDrifts, OperatorCleansTree,
        CloseCancelledAttempt, vars
  <2>2. CASE ~UNCHANGED report
    <3>1. AgentReports
      BY <1>11, <2>2
      DEF World, AgentEdits, AgentYields, TreeDrifts, OperatorCleansTree,
          CloseCancelledAttempt, vars
    <3>. QED
      BY <3>1 DEF AgentReports, InFlight
  <2>. QED
    BY <2>1, <2>2
<1>12. CASE Prompt \/ AbandonStaleTick \/ Crash
  BY <1>2, <1>12 DEF Prompt, AbandonStaleTick, Crash
<1>13. CASE \/ BlockProvenanceDrift \/ ReviewerValidation \/ BlockReviewerPreflight
            \/ ObserveNothing \/ AuthorizeProviderRecovery \/ RecordAdvice
            \/ SavePaneReady \/ SaveAgentReady \/ SettleAttempt \/ SaveFreshLane
            \/ \E lane \in Lane : PrepareAttempt(lane)
  BY <1>2, <1>13
  DEF BlockProvenanceDrift, ReviewerValidation, BlockReviewerPreflight, ObserveNothing,
      AuthorizeProviderRecovery, RecordAdvice, SavePaneReady, SaveAgentReady, SettleAttempt,
      SaveFreshLane, PrepareAttempt, Saves
<1>15. CASE FailPreflight \/ FailToRead \/ EndRefused
  BY <1>2, <1>14, <1>15 DEF FailPreflight, FailToRead, EndRefused
<1>. QED
  BY <1>5, <1>6, <1>7, <1>8, <1>9, <1>10, <1>11, <1>12, <1>13, <1>15 DEF Next, TickStep, TickEnd

\* Opening an incident says nothing of agent or report unless it names a rule.
LEMMA BlocksKeepDispatch ==
    ASSUME TypeOK, DispatchInv, Blocks, UNCHANGED <<report, prompts>>,
           agent' \in {agent, "absent", "pane", "idle", "closed"},
           job'.incident.rule # "none" =>
               /\ report = NoResult /\ agent' \notin {"working", "blocked"}
               /\ job'.incident.rule # "provider_pre_side_effect_transient" => prompts = 0
    PROVE  DispatchInv'
BY DEF Blocks, DispatchInv, Attempting

\* Nor does going on with the same Attempt, short of a prompt.
LEMMA GoesOnKeepsDispatch ==
    ASSUME TypeOK, DispatchInv, GoesOn, UNCHANGED <<report, prompts>>,
           agent' \in {agent, "absent", "pane", "idle", "closed"}
    PROVE  DispatchInv'
BY DEF GoesOn, DispatchInv, Attempting

\* A candidate is only named for an Attempt that was never saved as running, or whose
\* receipt proves that nothing was done.
LEMMA CandidateOf ==
    ASSUME NEW j \in Job
    PROVE  /\ automaticRecoveryCandidateForAttempt(j, TRUE)
                \in {"none", "provider_pre_side_effect_transient"}
           /\ j.attempt.phase = "running" =>
                  automaticRecoveryCandidateForAttempt(j, FALSE) = "none"
BY DEF automaticRecoveryCandidateForAttempt

\* DispatchInv is kept action by action: this is where ticks, agents and ledger meet.
LEMMA DispatchStep ==
    TypeOK /\ ExclusiveInv /\ AboutAttempt /\ DispatchInv /\ InFlight /\ [Next]_vars => DispatchInv'
<1>. SUFFICES ASSUME TypeOK, ExclusiveInv, AboutAttempt, DispatchInv, InFlight, [Next]_vars
              PROVE  DispatchInv'
  OBVIOUS
<1>. USE DEF runtime, ledger
<1>0. job \in Job
  BY DEF TypeOK
<1>1. ASSUME NEW lane \in Lane, PrepareAttempt(lane) PROVE DispatchInv'
  <2>1. job'.state = RunningState(lane)
    BY <1>0, <1>1 DEF PrepareAttempt, Saves, Job
  <2>. QED
    BY <1>1, <2>1, RecoveringIsApart DEF PrepareAttempt, DispatchInv
<1>2. ASSUME job.state \in Running, UNCHANGED <<tries, report, prompts>>,
             NEW class, NEW lane \in {job.attempt.lane, "controller"},
             Saves(Block(job, class, lane, NoResult, "none")), agent' \in {agent, "closed"}
      PROVE  DispatchInv'
  BY <1>2, BlockBlocks, BlocksKeepDispatch DEF Saves, Engaged
<1>3. ASSUME job.state \in Running, UNCHANGED <<tries, report, prompts>>, prompts = 0,
             Saves(reconcileAttemptOrBlock(job, FALSE)),
             agent' \in {agent, "absent", "pane", "idle", "closed"}
      PROVE  DispatchInv'
  <2>1. agent' \notin {"working", "blocked"} /\ report = NoResult
    BY <1>3 DEF DispatchInv
  <2>. QED
    BY <1>3, <2>1, ReconcileShape, BlocksKeepDispatch, GoesOnKeepsDispatch DEF Saves
<1>4. CASE BlockProvenanceDrift
  BY <1>2, <1>4 DEF BlockProvenanceDrift, Running
<1>5. CASE ReviewerValidation
  <2>1. UNCHANGED <<report, prompts, agent>>
    BY <1>5 DEF ReviewerValidation
  <2>. QED
    BY <1>5, <2>1, ValidationShape, GoesOnKeepsDispatch, BlocksKeepDispatch
<1>6. CASE BlockReviewerPreflight
  BY <1>2, <1>6 DEF BlockReviewerPreflight, PaneMayStart, Driving, RunningState, Running
<1>7. CASE CreateAttemptPane
  <2>1. job.state \in Running /\ prompts = 0 /\ UNCHANGED <<tries, report, prompts>>
    BY <1>7 DEF CreateAttemptPane, PaneMayStart, Driving, RunningState, Running, ExclusiveInv
  <2>2. CASE UNCHANGED job
    <3>1. GoesOn /\ agent' \in {agent, "pane", "absent"}
      BY <1>7, <2>1, <2>2 DEF CreateAttemptPane, GoesOn
    <3>. QED
      BY <2>1, <3>1, GoesOnKeepsDispatch
  <2>3. CASE Saves(reconcileAttemptOrBlock(job, FALSE)) /\ agent' \in {agent, "absent", "pane"}
    BY <1>3, <2>1, <2>3
  <2>4. CASE /\ job.attempt.lane = "reviewer" /\ UNCHANGED agent
             /\ Saves(Block(job, "review_uncertain", "reviewer", NoResult, "none"))
    BY <1>2, <2>1, <2>4
  <2>. QED
    BY <1>7, <2>2, <2>3, <2>4 DEF CreateAttemptPane
<1>8. CASE StartAgent
  <2>1. job.state \in Running /\ prompts = 0 /\ UNCHANGED <<tries, report, prompts>>
    BY <1>8 DEF StartAgent, Driving, RunningState, Running, ExclusiveInv
  <2>2. CASE UNCHANGED job /\ agent' = "idle"
    <3>1. GoesOn
      BY <2>1, <2>2 DEF GoesOn
    <3>. QED
      BY <2>1, <2>2, <3>1, GoesOnKeepsDispatch
  <2>3. CASE Saves(reconcileAttemptOrBlock(job, FALSE)) /\ agent' \in {agent, "idle", "closed"}
    BY <1>3, <2>1, <2>3
  <2>. QED
    BY <1>8, <2>2, <2>3 DEF StartAgent
<1>9. CASE SavePaneReady \/ SaveAgentReady \/ PersistRunning
  <2>1. job.state \in Running
    BY <1>9
    DEF SavePaneReady, SaveAgentReady, PersistRunning, Driving, RunningState, Running, ExclusiveInv
  <2>2. GoesOn
    <3>1. CASE SavePaneReady
      BY <1>0, <2>1, <3>1 DEF SavePaneReady, Saves, GoesOn, Job, Attempt
    <3>2. CASE SaveAgentReady
      BY <1>0, <2>1, <3>2 DEF SaveAgentReady, Saves, GoesOn, Job, Attempt
    <3>3. CASE PersistRunning
      BY <1>0, <2>1, <3>3 DEF PersistRunning, GoesOn, Job, Attempt
    <3>. QED
      BY <1>9, <3>1, <3>2, <3>3
  <2>. QED
    BY <1>9, <2>2, GoesOnKeepsDispatch DEF SavePaneReady, SaveAgentReady, PersistRunning
<1>10. CASE Prompt
  <2>1. job.state \notin Recovering /\ UNCHANGED <<job, report>> /\ prompts \in Nat
    BY <1>10 DEF Prompt, ExclusiveInv, Running, Recovering, TypeOK
  <2>2. CASE agent' = "working" /\ prompts' = prompts + 1
    BY <2>1, <2>2 DEF DispatchInv, Attempting
  <2>3. CASE agent' \in {agent, "closed"} /\ UNCHANGED prompts
    BY <2>1, <2>3 DEF DispatchInv, Attempting
  <2>. QED
    BY <1>10, <2>2, <2>3 DEF Prompt
<1>11. CASE FinishObservedAttempt
  <2>1. CASE Verdict = "none"
    BY <1>11, <2>1 DEF FinishObservedAttempt, DispatchInv, Attempting
  <2>2. CASE Verdict # "none"
    BY <1>11, <2>2, VerdictBlocks, BlocksKeepDispatch DEF FinishObservedAttempt
  <2>. QED
    BY <2>1, <2>2
<1>12. CASE ObserveNothing
  <2>1. /\ job.state \in Running /\ job.attempt.phase = "running"
        /\ UNCHANGED <<tries, report, prompts>> /\ agent' \in {agent, "closed"}
    BY <1>12 DEF ObserveNothing, Driving, RunningState, Running
  <2>2. CASE Saves(reconcileAttemptOrBlock(job, FALSE))
    <3>1. GoesOn \/ (Blocks /\ job'.incident.rule = "none")
      BY <1>0, <2>1, <2>2, ReconcileShape, CandidateOf DEF Saves
    <3>. QED
      BY <2>1, <3>1, BlocksKeepDispatch, GoesOnKeepsDispatch
  <2>3. CASE Saves(reconcileAttemptOrBlock(job, TRUE)) /\ report = NoResult /\ agent' = "closed"
    <3>1. \/ GoesOn
          \/ Blocks /\ job'.incident.rule \in {"none", "provider_pre_side_effect_transient"}
      BY <1>0, <2>1, <2>3, ReconcileShape, CandidateOf DEF Saves
    <3>. QED
      BY <2>1, <2>3, <3>1, BlocksKeepDispatch, GoesOnKeepsDispatch
  <2>4. CASE \E class, lane : /\ lane \in {job.attempt.lane, "controller"}
                              /\ Saves(Block(job, class, lane, NoResult, "none"))
    BY <1>2, <2>1, <2>4
  <2>. QED
    BY <1>12, <2>2, <2>3, <2>4 DEF ObserveNothing
<1>13. CASE SettleAttempt \/ SaveFreshLane
  <2>1. job'.attempt = NoAttempt /\ job'.state \notin Recovering
    <3>1. CASE SettleAttempt
      <4>1. Observed \in Job /\ job' = Settlement(Observed)
        BY <1>0, <3>1, ObservedShape DEF SettleAttempt, Saves
      <4>2. /\ Settlement(Observed).attempt = NoAttempt
            /\ Settlement(Observed).state \in {"reviewer_ready", "publish_ready", "worker_ready"}
        BY <4>1 DEF Settlement, Job
      <4>. QED
        BY <4>1, <4>2 DEF Recovering
    <3>2. CASE SaveFreshLane
      <4>1. PICK lane : job' = FreshLane(lane)
        BY <3>2 DEF SaveFreshLane, Saves
      <4>2. job'.attempt = NoAttempt /\ job'.state = ReadyState(lane)
        BY <1>0, <4>1 DEF FreshLane, Job
      <4>. QED
        BY <4>2 DEF ReadyState, Recovering
    <3>. QED
      BY <1>13, <3>1, <3>2
  <2>. QED
    BY <1>13, <2>1 DEF SettleAttempt, SaveFreshLane, DispatchInv, Attempting, NoAttempt
<1>14. ASSUME job.state \in Recovering, job'.attempt = job.attempt, UNCHANGED <<report, prompts>>,
              job'.incident.rule \in {job.incident.rule, "none"}, agent' \in {agent, "closed"}
       PROVE  DispatchInv'
  BY <1>14 DEF DispatchInv, Attempting
<1>15. CASE AuthorizeProviderRecovery
  <2>1. job'.attempt = job.attempt /\ job'.incident = job.incident
    BY <1>0, <1>15 DEF AuthorizeProviderRecovery, Saves, authorizeAutomaticRecovery, Job
  <2>. QED
    BY <1>14, <1>15, <2>1 DEF AuthorizeProviderRecovery, Loads, LateWaitMayClose, Recovering
<1>16. CASE RecordAdvice
  <2>1. job'.attempt = job.attempt /\ job'.incident = job.incident
    BY <1>0, <1>16 DEF RecordAdvice, Saves, authorizeAutomaticRecovery, Job
  <2>2. job.state = "blocked"
    BY <1>16 DEF RecordAdvice, InFlight
  <2>. QED
    BY <1>14, <1>16, <2>1, <2>2 DEF RecordAdvice, Recovering
<1>17. CASE Operator
  <2>1. job.state = "blocked" /\ UNCHANGED <<report, prompts, agent>>
    BY <1>17
    DEF Operator, approveRecovery, resolveDecision, reassessIncident, cancelHeldJob, Decides
  <2>2. job'.attempt = job.attempt /\ job'.incident.rule \in {job.incident.rule, "none"}
    <3>1. CASE approveRecovery \/ resolveDecision
      <4>1. PICK basis, action : job' = HumanApproval(basis, action)
        BY <3>1 DEF approveRecovery, resolveDecision, Decides
      <4>. QED
        BY <1>0, <4>1 DEF HumanApproval, Job
    <3>2. CASE reassessIncident
      BY <1>0, <3>2 DEF reassessIncident, Decides, SuccessorIncident, Job, Incident
    <3>3. CASE cancelHeldJob
      BY <1>0, <3>3 DEF cancelHeldJob, Decides, Job
    <3>. QED
      BY <1>17, <3>1, <3>2, <3>3 DEF Operator
  <2>. QED
    BY <1>14, <2>1, <2>2 DEF Recovering
<1>18. CASE ApplyRecovery
  <2>1. /\ agent' \in {agent, "closed"} /\ UNCHANGED <<report, prompts>>
        /\ job.state \in Recovering
    BY <1>18 DEF ApplyRecovery, LateWaitMayClose, Loads, Recovering
  <2>2. CASE RecoveryObstacle = "none"
    BY <1>14, <1>18, <2>1, <2>2 DEF ApplyRecovery
  <2>3. CASE RecoveryObstacle # "none"
    <3>1. Blocks /\ job'.incident.rule = "none"
      BY <1>18, <2>1, <2>3, BlockBlocks DEF ApplyRecovery, Saves, Engaged
    <3>. QED
      BY <2>1, <3>1, BlocksKeepDispatch
  <2>. QED
    BY <2>2, <2>3
<1>19. ASSUME UNCHANGED <<job, report, prompts>>, agent' \in {agent, "closed"}
       PROVE  DispatchInv'
  BY <1>19 DEF DispatchInv, Attempting
<1>20. CASE \/ CloseCompletedAttempt \/ StartDiagnosis \/ CloseRetiredAttempt
            \/ CloseCancelledAttempt \/ AbandonStaleTick \/ Crash \/ UNCHANGED vars
            \/ FailPreflight \/ FailToRead \/ EndRefused
  BY <1>19, <1>20
  DEF CloseCompletedAttempt, StartDiagnosis, LateWaitMayClose, CloseRetiredAttempt,
      CloseCancelledAttempt, AbandonStaleTick, Crash, FailPreflight, FailToRead, EndRefused, vars
<1>21. CASE World
  <2>1. CASE AgentReports
    <3>1. PICK kind \in IF job.attempt.lane = "worker" THEN WorkerReport ELSE ReviewerReport,
               head \in Head : report' = [kind |-> kind, head |-> head]
      BY <2>1 DEF AgentReports
    <3>2. agent = "working" /\ UNCHANGED <<job, agent, prompts>>
      BY <2>1 DEF AgentReports
    <3>. QED
      BY <3>1, <3>2 DEF DispatchInv, Attempting
  <2>2. CASE AgentYields
    <3>1. /\ agent \in {"working", "blocked"} /\ UNCHANGED <<job, report, prompts>>
      BY <2>2 DEF AgentYields
    <3>. QED
      BY <3>1 DEF DispatchInv, Attempting
  <2>3. CASE AgentEdits \/ TreeDrifts \/ OperatorCleansTree
    BY <1>19, <2>3 DEF AgentEdits, TreeDrifts, OperatorCleansTree
  <2>. QED
    BY <1>21, <2>1, <2>2, <2>3 DEF World
<1>. QED
  BY <1>1, <1>4, <1>5, <1>6, <1>7, <1>8, <1>9, <1>10, <1>11, <1>12, <1>13, <1>15, <1>16, <1>17,
     <1>18, <1>20, <1>21
  DEF Next, TickStep, TickEnd

LEMMA RecoveryInvariant == Spec => []RecoveryInv
<1>1. Init => RecoveryInv
  <2>. SUFFICES ASSUME Init PROVE RecoveryInv
    OBVIOUS
  <2>1. /\ job.state = "worker_ready" /\ job.round = 0 /\ job.attempt = NoAttempt
        /\ job.handoff = NoHandoff /\ tick = Idle /\ agent = "absent" /\ report = NoResult
        /\ tries = [l \in Lane |-> 0]
    BY DEF Init
  <2>2. AboutAttempt /\ RecoveriesBind
    BY <2>1, LaneStates
    DEF AboutAttempt, Engaged, Running, Recovering, RecoveriesBind, ApprovalStaysBound,
        HandoffAlwaysBinds, HandoffBinds
  <2>3. InFlight /\ DispatchInv
    BY <2>1 DEF InFlight, Idle, At, DispatchInv, Recovering, Attempting, NoAttempt
  <2>4. BudgetInv
    BY <2>1, LaneStates, SpentBounds
    DEF BudgetInv, BoundedUnattendedAttempts, Engaged, Running, Recovering, Reviewing
  <2>5. RoundsInv
    BY <2>1 DEF RoundsInv, ReviewRoundsBounded, NoAttempt
  <2>. QED
    BY <2>2, <2>3, <2>4, <2>5 DEF RecoveryInv
<1>2. TypeOK /\ ExclusiveInv /\ RecoveryInv /\ [Next]_vars => RecoveryInv'
  <2>. SUFFICES ASSUME TypeOK, ExclusiveInv, RecoveryInv, [Next]_vars PROVE RecoveryInv'
    OBVIOUS
  <2>1. LedgerInv /\ AboutAttempt /\ InFlight /\ DispatchInv
    BY DEF RecoveryInv, LedgerInv
  <2>2. LedgerInv'
    BY <2>1, Shapes, GoesOnKeeps, BlocksKeeps, AuthorizesKeeps, AdvisesKeeps, PrepareKeeps,
       SettleKeeps, FreshLaneKeeps, OperatorKeeps
  <2>3. InFlight' /\ DispatchInv'
    BY <2>1, InFlightStep, DispatchStep
  <2>. QED
    BY <2>2, <2>3 DEF RecoveryInv, LedgerInv
<1>. QED
  BY <1>1, <1>2, TypeCorrect, ExclusiveInvariant, PTL DEF Spec

\* What the Controller spends on a HEAD without asking anybody is bounded, and so are the
\* rounds of review, whatever incidents, crashes and recoveries come in between.
THEOREM UnattendedWork == Spec => []UnattendedWorkIsBounded
<1>1. RecoveryInv => UnattendedWorkIsBounded
  BY DEF RecoveryInv, BudgetInv, RoundsInv, UnattendedWorkIsBounded
<1>. QED
  BY <1>1, RecoveryInvariant, PTL

\* A recovery approved by anybody still binds when it is applied, and its handoff when the
\* next Attempt is prepared.
THEOREM RecoveriesAlwaysBind == Spec => []RecoveriesBind
<1>1. RecoveryInv => RecoveriesBind
  BY DEF RecoveryInv
<1>. QED
  BY <1>1, RecoveryInvariant, PTL

\* No policy rule retries an Attempt whose agent did, or still does, anything.
THEOREM PoliciesLoseNothing == Spec => []PolicyRetriesLoseNothing
<1>1. RecoveryInv => PolicyRetriesLoseNothing
  BY DEF RecoveryInv, AboutAttempt, RecoveriesBind, ApprovalStaysBound, ApprovalBinds,
     DispatchInv, Recovering, PolicyRetriesLoseNothing
<1>. QED
  BY <1>1, RecoveryInvariant, PTL

-----------------------------------------------------------------------------
(* The life of the Job: Spec implements JobLifecycle.                        *)

LEMMA ReviewedInvariant == Spec => []ReviewedInv
<1>1. Init => ReviewedInv
  BY DistinctTicks DEF Init, ReviewedInv, PublishedHeadWasReviewed, NoResult
<1>. QED
  BY <1>1, TypeCorrect, ReviewedStep, PTL DEF Spec

\* Whoever opens, saves or answers an incident leaves the Attempt what it was.
LEMMA OperatorShape ==
    ASSUME TypeOK, Operator
    PROVE  /\ job.state = "blocked" /\ job.approval = NoApproval
           /\ job'.state \in {"blocked", "recovery_approved", "cancelled"}
           /\ job'.state = "recovery_approved" => job'.approval.basis # "policy_rule"
           /\ UNCHANGED <<agent, report, prompts, verdicts>>
           /\ job'.head = job.head /\ job'.round = job.round /\ job'.auto = job.auto
           /\ job'.attempt = job.attempt
<1>1. ASSUME NEW basis \in {"analyst_advice", "human_decision"}, NEW action,
             job' = HumanApproval(basis, action)
      PROVE  /\ job'.state = "recovery_approved" /\ job'.approval.basis # "policy_rule"
             /\ job'.head = job.head /\ job'.round = job.round /\ job'.auto = job.auto
             /\ job'.attempt = job.attempt
  BY <1>1 DEF HumanApproval, TypeOK, Job
<1>2. /\ job.state = "blocked" /\ job.approval = NoApproval
      /\ UNCHANGED <<agent, report, prompts, verdicts>>
  BY DEF Operator, approveRecovery, resolveDecision, reassessIncident, cancelHeldJob, Decides,
     runtime
<1>3. CASE approveRecovery \/ resolveDecision
  BY <1>1, <1>2, <1>3 DEF approveRecovery, resolveDecision, Decides
<1>4. CASE reassessIncident
  BY <1>2, <1>4 DEF reassessIncident, Decides, TypeOK, Job
<1>5. CASE cancelHeldJob
  BY <1>2, <1>5 DEF cancelHeldJob, Decides, TypeOK, Job
<1>. QED
  BY <1>3, <1>4, <1>5 DEF Operator

\* An authorization by rule, field by field.
LEMMA AuthorizesShape ==
    ASSUME TypeOK, AboutAttempt, Authorizes
    PROVE  /\ job.state = "blocked" /\ job.incident.rule # "none"
           /\ job'.state = "recovery_approved" /\ job'.approval.basis = "policy_rule"
           /\ job'.head = job.head /\ job'.round = job.round /\ job'.attempt = job.attempt
           /\ job.incident.rule \in {"provider_pre_side_effect_transient", LaneRule(job.attempt.lane)}
           /\ FingerprintOf(job) = [rule |-> job.incident.rule, lane |-> job.attempt.lane, head |-> job.head]
           /\ FingerprintOf(job) \notin job.auto /\ job'.auto = job.auto \union {FingerprintOf(job)}
<1>1. PICK advice \in Advice : /\ automaticRecoveryFor(job, advice)
                               /\ job' = authorizeAutomaticRecovery(job, advice)
  BY DEF Authorizes
<1>2. /\ job.state = "blocked" /\ job.incident.rule # "none" /\ FingerprintOf(job) \notin job.auto
      /\ job.incident.rule = "worker_pre_dispatch_infrastructure" => job.attempt.lane = "worker"
      /\ job.incident.rule = "reviewer_same_head_infrastructure" => job.attempt.lane = "reviewer"
  BY <1>1 DEF automaticRecoveryFor
<1>3. /\ job'.state = "recovery_approved" /\ job'.approval.basis = "policy_rule"
      /\ job'.head = job.head /\ job'.round = job.round /\ job'.attempt = job.attempt
      /\ job'.auto = job.auto \union {FingerprintOf(job)}
  BY <1>1 DEF authorizeAutomaticRecovery, TypeOK, Job
<1>4. job.attempt.head = job.head
  BY <1>2 DEF AboutAttempt, Engaged, Recovering
<1>5. job.incident.rule \in Rule
  BY DEF TypeOK, Job, Incident
<1>. QED
  BY <1>2, <1>3, <1>4, <1>5 DEF FingerprintOf, LaneRule, Rule

\* A prepared Attempt, a settled one, and one that is given up, field by field.
LEMMA PrepareShape ==
    ASSUME TypeOK, NEW l \in Lane, PrepareAttempt(l)
    PROVE  /\ job.state = ReadyState(l) /\ job'.state = RunningState(l) /\ job'.attempt.lane = l
           /\ job'.attempt.round = job.round + 1 /\ job'.head = job.head /\ job'.round = job.round
           /\ job'.auto = job.auto /\ tick' = Idle
           /\ agent' = "absent" /\ report' = NoResult /\ prompts' = 0 /\ UNCHANGED verdicts
<1>1. PICK receipt \in {"none", "reused"} :
        job' = [job EXCEPT
             !.state = RunningState(l),
             !.attempt = [NoAttempt EXCEPT
                 !.id = NextName(job.incident.attempt), !.lane = l, !.phase = "prepared",
                 !.round = job.round + 1, !.head = job.head, !.receipt = receipt],
             !.handoff = NoHandoff]
  BY DEF PrepareAttempt, Saves
<1>2. /\ job'.state = RunningState(l) /\ job'.attempt.lane = l
      /\ job'.attempt.round = job.round + 1 /\ job'.head = job.head /\ job'.round = job.round
      /\ job'.auto = job.auto
  BY <1>1 DEF TypeOK, Job, NoAttempt
<1>. QED
  BY <1>2 DEF PrepareAttempt, Loads, Saves

LEMMA FreshLaneShape ==
    ASSUME TypeOK, ExclusiveInv, InFlight, SaveFreshLane
    PROVE  \E l \in Lane :
           /\ l = RetryLane(job.approval.action)
           /\ job.state = "recovery_approved" /\ job'.state = ReadyState(l) /\ agent \notin Alive
           /\ job'.head = job.head /\ job'.round = job.round /\ job'.auto = job.auto
           /\ UNCHANGED <<agent, report, prompts, verdicts>>
<1>1. PICK l \in Lane : l = RetryLane(job.approval.action)
  BY LaneStates
<1>2. /\ job'.state = ReadyState(l) /\ job'.head = job.head /\ job'.round = job.round
      /\ job'.auto = job.auto
  BY <1>1 DEF SaveFreshLane, Saves, FreshLane, TypeOK, Job
<1>3. job.state = "recovery_approved" /\ agent \notin Alive
  BY TickPoints DEF SaveFreshLane, InFlight, ExclusiveInv
<1>. QED
  BY <1>1, <1>2, <1>3 DEF SaveFreshLane, runtime

LEMMA SettleShape ==
    ASSUME TypeOK, ExclusiveInv, ReviewedInv, InFlight, DispatchInv, LifecycleInv, SettleAttempt
    PROVE  /\ job.state \in Engaged /\ agent \notin Alive /\ report # NoResult
           /\ UNCHANGED <<agent, report, prompts, verdicts>> /\ job'.auto = job.auto
           /\ \/ /\ job.attempt.lane = "worker" /\ job'.state = "reviewer_ready"
                 /\ job'.head \in Nat /\ job'.head > job.head /\ job'.round = job.round
              \/ /\ job.attempt.lane = "reviewer" /\ job.head \in verdicts
                 /\ job'.state = "publish_ready" /\ job'.head = job.head
                 /\ job'.round = job.round + 1
              \/ /\ job.attempt.lane = "reviewer" /\ job.round + 1 < MaxReviewRounds
                 /\ job'.state = "worker_ready" /\ job'.head = job.head
                 /\ job'.round = job.round + 1
<1>1. tick = At("settle") /\ job' = Settlement(Observed)
  BY DEF SettleAttempt, Saves
<1>2. /\ job.state \in Engaged /\ report # NoResult /\ agent \notin Alive
      /\ job.attempt.round = job.round + 1
      /\ job.attempt.lane = "reviewer" /\ report.kind # "pass" => job.attempt.round < MaxReviewRounds
      /\ job.attempt.lane = "worker" => report.head > job.head
      /\ job.attempt.lane = "reviewer" /\ report.kind = "pass" => job.head \in verdicts
  BY <1>1, TickPoints DEF InFlight, ExclusiveInv, LifecycleInv, ReviewedInv
<1>3. job.attempt.lane \in {"worker", "reviewer"} /\ report.head \in Nat
  BY DEF TypeOK, Job, Attempt, Lane, Result, Head
<1>4. job'.auto = job.auto /\ UNCHANGED <<agent, report, prompts, verdicts>>
  BY <1>1, ObservedShape DEF Settlement, SettleAttempt, runtime, TypeOK, Job
<1>5. CASE job.attempt.lane = "worker"
  <2>1. job'.state = "reviewer_ready" /\ job'.head = report.head /\ job'.round = job.round
    BY <1>1, <1>5, ObservedShape DEF Settlement, TypeOK, Job
  <2>. QED
    BY <1>2, <1>3, <1>4, <1>5, <2>1
<1>6. CASE job.attempt.lane = "reviewer" /\ report.kind = "pass"
  <2>1. job'.state = "publish_ready" /\ job'.head = job.head /\ job'.round = job.attempt.round
    BY <1>1, <1>6, ObservedShape DEF Settlement, TypeOK, Job
  <2>. QED
    BY <1>2, <1>4, <1>6, <2>1
<1>7. CASE job.attempt.lane = "reviewer" /\ report.kind # "pass"
  <2>1. job'.state = "worker_ready" /\ job'.head = job.head /\ job'.round = job.attempt.round
    BY <1>1, <1>7, ObservedShape DEF Settlement, TypeOK, Job
  <2>. QED
    BY <1>2, <1>4, <1>7, <2>1
<1>. QED
  BY <1>3, <1>5, <1>6, <1>7

-----------------------------------------------------------------------------

\* A report is judged once, when it is there, and stands while its tick goes on.
LEMMA WorkersReport ==
    ASSUME TypeOK, AboutAttempt, InFlight, LifecycleInv, [Next]_vars,
           tick' \in {At("close"), At("settle")}, job'.attempt.lane = "worker"
    PROVE  report'.head > job'.head
<1>. USE DEF runtime, ledger
<1>1. tick' # Idle /\ tick'.fresh /\ tick'.at \in {"close", "settle"}
  BY DEF Idle, At
<1>2. CASE FinishObservedAttempt
  <2>1. Verdict = "none" /\ UNCHANGED <<job, report>>
    BY <1>1, <1>2 DEF FinishObservedAttempt, Saves
  <2>2. job.state \in Engaged
    BY <1>2 DEF FinishObservedAttempt, Driving, RunningState, AwaitingLateResult, Engaged, Running,
       Recovering
  <2>3. verifyWorker
    BY <2>1 DEF Verdict
  <2>. QED
    BY <2>1, <2>2, <2>3 DEF verifyWorker, AboutAttempt
<1>3. CASE CloseCompletedAttempt
  <2>1. tick = At("close") /\ UNCHANGED <<job, report>>
    BY <1>1, <1>3 DEF CloseCompletedAttempt, TypeOK, At
  <2>. QED
    BY <2>1 DEF LifecycleInv
<1>4. CASE UNCHANGED <<job, tick, report>>
  BY <1>4 DEF LifecycleInv
<1>5. CASE AgentReports
  BY <1>5 DEF AgentReports, InFlight
<1>6. CASE Operator
  <2>1. \E next : Decides(next)
    BY <1>6 DEF Operator, approveRecovery, resolveDecision, reassessIncident, cancelHeldJob
  <2>. QED
    BY <1>1, <2>1 DEF Decides, TypeOK, Idle
<1>7. CASE World \/ UNCHANGED vars \/ CloseCancelledAttempt
  BY <1>4, <1>5, <1>7
  DEF World, AgentEdits, AgentYields, TreeDrifts, OperatorCleansTree, CloseCancelledAttempt, vars
<1>8. CASE CreateAttemptPane \/ StartAgent \/ PersistRunning \/ StartDiagnosis
  <2>1. tick' \in {Idle, At("pane"), At("agent"), At("prompt"), At("advise")}
    BY <1>8 DEF CreateAttemptPane, StartAgent, PersistRunning, StartDiagnosis, Saves
  <2>. QED
    BY <1>1, <2>1, TickPoints
<1>9. CASE ApplyRecovery \/ CloseRetiredAttempt
  BY <1>1, <1>9 DEF ApplyRecovery, CloseRetiredAttempt, Saves, At
<1>10. CASE Prompt \/ AbandonStaleTick \/ Crash \/ FailPreflight \/ FailToRead \/ EndRefused
  BY <1>1, <1>10 DEF Prompt, AbandonStaleTick, Crash, FailPreflight, FailToRead, EndRefused, At
<1>11. CASE \/ BlockProvenanceDrift \/ ReviewerValidation \/ BlockReviewerPreflight
            \/ ObserveNothing \/ AuthorizeProviderRecovery \/ RecordAdvice
            \/ SavePaneReady \/ SaveAgentReady \/ SettleAttempt \/ SaveFreshLane
            \/ \E l \in Lane : PrepareAttempt(l)
  BY <1>1, <1>11
  DEF BlockProvenanceDrift, ReviewerValidation, BlockReviewerPreflight, ObserveNothing,
      AuthorizeProviderRecovery, RecordAdvice, SavePaneReady, SaveAgentReady, SettleAttempt,
      SaveFreshLane, PrepareAttempt, Saves
<1>. QED
  BY <1>2, <1>3, <1>6, <1>7, <1>8, <1>9, <1>10, <1>11 DEF Next, TickStep, TickEnd

LEMMA LifecycleInvariant == Spec => []LifecycleInv
<1>1. Init => LifecycleInv
  BY DEF Init, LifecycleInv, Engaged, Running, Recovering, Ready, Idle, At
<1>2. TypeOK /\ ExclusiveInv /\ ReviewedInv /\ RecoveryInv /\ LifecycleInv /\ [Next]_vars
        => LifecycleInv'
  <2>. SUFFICES ASSUME TypeOK, ExclusiveInv, ReviewedInv, RecoveryInv, LifecycleInv, [Next]_vars
                PROVE  LifecycleInv'
    OBVIOUS
  <2>1. AboutAttempt /\ InFlight /\ DispatchInv
    BY DEF RecoveryInv
  <2>2. tick' \in {At("close"), At("settle")} /\ job'.attempt.lane = "worker"
          => report'.head > job'.head
    BY <2>1, WorkersReport
  <2>. DEFINE Goal == /\ job'.state \in Engaged \union Ready \union {"cancelled"}
                      /\ job'.state \in Engaged => job'.attempt.round = job'.round + 1
  <2>3. ASSUME GoesOn PROVE Goal
    BY <2>3 DEF GoesOn, LifecycleInv
  <2>4. ASSUME Blocks PROVE Goal
    BY <2>4, RecoveringIsApart DEF Blocks, LifecycleInv
  <2>5. ASSUME Authorizes PROVE Goal
    BY <2>1, <2>5, AuthorizesShape, RecoveringIsApart DEF LifecycleInv
  <2>6. ASSUME Advises PROVE Goal
    <3>1. /\ job.state = "blocked" /\ job'.state = "blocked" /\ job'.round = job.round
          /\ job'.attempt = job.attempt
      BY <2>6 DEF Advises, TypeOK, Job
    <3>. QED
      BY <3>1, RecoveringIsApart DEF LifecycleInv
  <2>7. ASSUME NEW l \in Lane, PrepareAttempt(l) PROVE Goal
    BY <2>7, PrepareShape, RecoveringIsApart DEF Engaged
  <2>8. ASSUME SettleAttempt PROVE Goal
    BY <2>1, <2>8, SettleShape DEF Ready, Engaged, Running, Recovering
  <2>9. ASSUME SaveFreshLane PROVE Goal
    BY <2>1, <2>9, FreshLaneShape, LaneStates DEF Ready, Engaged, Running, Recovering
  <2>10. ASSUME Operator PROVE Goal
    BY <2>10, OperatorShape, RecoveringIsApart DEF LifecycleInv, Engaged, Running, Recovering
  <2>11. Goal
    BY <2>1, <2>3, <2>4, <2>5, <2>6, <2>7, <2>8, <2>9, <2>10, Shapes
  <2>. QED
    BY <2>2, <2>11 DEF LifecycleInv
<1>. QED
  BY <1>1, <1>2, TypeCorrect, ExclusiveInvariant, ReviewedInvariant, RecoveryInvariant, PTL DEF Spec

-----------------------------------------------------------------------------

\* Steps of the ledger leave alone what the agent did; it may end at any time, and start
\* only for an Attempt that was not prompted.
Quiet ==
    /\ UNCHANGED <<report, prompts, verdicts>>
    /\ agent' \in Alive => agent \in Alive \/ (job.state \in Running /\ prompts = 0)

\* Which steps those are.
LEMMA QuietSteps ==
    ASSUME TypeOK, ExclusiveInv, [Next]_vars
    PROVE  Quiet \/ Prompt \/ (AgentReports /\ World) \/ \E l \in Lane : PrepareAttempt(l)
<1>. USE DEF runtime, ledger
<1>1. ASSUME UNCHANGED <<report, prompts, verdicts>>, agent' \in {agent, "absent", "pane", "closed"}
      PROVE  Quiet
  BY <1>1 DEF Quiet, Alive
<1>2. CASE StartAgent
  <2>1. job.state \in Running /\ prompts = 0 /\ UNCHANGED <<report, prompts, verdicts>>
    BY <1>2 DEF StartAgent, Driving, RunningState, Running, ExclusiveInv
  <2>. QED
    BY <2>1 DEF Quiet
<1>3. CASE AgentYields
  BY <1>3 DEF AgentYields, Quiet, Alive
<1>4. CASE CreateAttemptPane
  BY <1>1, <1>4 DEF CreateAttemptPane
<1>5. CASE World
  BY <1>1, <1>3, <1>5 DEF World, AgentEdits, TreeDrifts, OperatorCleansTree
<1>6. CASE Operator
  BY <1>1, <1>6, OperatorShape
<1>7. CASE \/ ReviewerValidation \/ BlockReviewerPreflight \/ PersistRunning
           \/ FinishObservedAttempt \/ ObserveNothing \/ CloseCancelledAttempt \/ BlockProvenanceDrift
           \/ SavePaneReady \/ SaveAgentReady \/ CloseCompletedAttempt \/ SettleAttempt
           \/ RecordAdvice \/ CloseRetiredAttempt \/ SaveFreshLane \/ AbandonStaleTick \/ Crash
           \/ FailPreflight \/ FailToRead \/ EndRefused \/ UNCHANGED vars
  BY <1>1, <1>7
  DEF ReviewerValidation, BlockReviewerPreflight, PersistRunning, FinishObservedAttempt,
      ObserveNothing, CloseCancelledAttempt, BlockProvenanceDrift, SavePaneReady, SaveAgentReady,
      CloseCompletedAttempt, SettleAttempt, RecordAdvice, CloseRetiredAttempt, SaveFreshLane,
      AbandonStaleTick, Crash, FailPreflight, FailToRead, EndRefused, vars
<1>8. CASE AuthorizeProviderRecovery \/ StartDiagnosis \/ ApplyRecovery
  BY <1>1, <1>8 DEF AuthorizeProviderRecovery, StartDiagnosis, ApplyRecovery, LateWaitMayClose
<1>. QED
  BY <1>2, <1>4, <1>5, <1>6, <1>7, <1>8 DEF Next, TickStep, TickEnd

\* The states of the Job and what they are called.
LEMMA Stages ==
    /\ \A l \in Lane : job.state = ReadyState(l) => stage = "ready" /\ turn = l
    /\ job.state \in Running => stage = "running" /\ turn = job.attempt.lane
    /\ job.state = "blocked" => stage = "held" /\ turn = job.attempt.lane
    /\ job.state = "recovery_approved" =>
           /\ stage = IF job.approval.basis = "policy_rule" THEN "authorized" ELSE "answered"
           /\ turn = job.attempt.lane
    /\ job.state = "publish_ready" => stage = "published" /\ turn = "reviewer"
    /\ job.state = "cancelled" => stage = "cancelled" /\ turn = job.attempt.lane
    /\ job.state \in Engaged => stage \in Lifecycle!Open /\ turn = job.attempt.lane
BY LaneStates
DEF stage, turn, Running, Engaged, Recovering, Lifecycle!Open, Lifecycle!Answered

\* The same of the next state.
LEMMA NextStages ==
    /\ \A l \in Lane : job'.state = ReadyState(l) => stage' = "ready" /\ turn' = l
    /\ job'.state \in Running => stage' = "running" /\ turn' = job'.attempt.lane
    /\ job'.state = "blocked" => stage' = "held" /\ turn' = job'.attempt.lane
    /\ job'.state = "recovery_approved" =>
           /\ stage' = IF job'.approval.basis = "policy_rule" THEN "authorized" ELSE "answered"
           /\ turn' = job'.attempt.lane
    /\ job'.state = "publish_ready" => stage' = "published" /\ turn' = "reviewer"
    /\ job'.state = "cancelled" => stage' = "cancelled" /\ turn' = job'.attempt.lane
BY LaneStates DEF stage, turn, Running

\* The agent of the newest Attempt in three words.
LEMMA NewestIs ==
    ASSUME NEW a \in BOOLEAN, NEW b \in BOOLEAN, NEW c \in BOOLEAN,
           agent \in Alive <=> a, prompts > 0 <=> b, report # NoResult <=> c
    PROVE  newest = [alive |-> a, prompted |-> b, reported |-> c]
<1>1. (agent \in Alive) = a
  OBVIOUS
<1>2. (prompts > 0) = b
  OBVIOUS
<1>3. (report # NoResult) = c
  OBVIOUS
<1>. QED
  BY <1>1, <1>2, <1>3 DEF newest

\* The same after a step.
LEMMA NextNewestIs ==
    ASSUME NEW a \in BOOLEAN, NEW b \in BOOLEAN, NEW c \in BOOLEAN,
           agent' \in Alive <=> a, prompts' > 0 <=> b, report' # NoResult <=> c
    PROVE  newest' = [alive |-> a, prompted |-> b, reported |-> c]
<1>1. (agent' \in Alive) = a
  OBVIOUS
<1>2. (prompts' > 0) = b
  OBVIOUS
<1>3. (report' # NoResult) = c
  OBVIOUS
<1>. QED
  BY <1>1, <1>2, <1>3 DEF newest

\* What a prompt and a report change of it.
LEMMA NewestGoesOn ==
    \A a, b, c, d :
        /\ [[alive |-> a, prompted |-> b, reported |-> c] EXCEPT !.prompted = d]
             = [alive |-> a, prompted |-> d, reported |-> c]
        /\ [[alive |-> a, prompted |-> b, reported |-> c] EXCEPT !.reported = d]
             = [alive |-> a, prompted |-> b, reported |-> d]
OBVIOUS

\* A quiet step is one that the agent may have started or ended at.
LEMMA QuietLives == ASSUME Quiet, job.state \in Running => stage = "running" PROVE Lifecycle!Lives
<1>1. newest' = [newest EXCEPT !.alive = (agent' \in Alive)]
  BY DEF newest, Quiet
<1>2. CASE agent' \in Alive
  <2>1. newest' = [newest EXCEPT !.alive = TRUE]
    BY <1>1, <1>2
  <2>2. CASE agent \in Alive
    <3>1. newest.alive = TRUE
      BY <2>2 DEF newest
    <3>. QED
      BY <2>1, <3>1 DEF Lifecycle!Lives, Lifecycle!MayLive
  <2>3. CASE job.state \in Running /\ prompts = 0
    <3>1. newest.prompted = FALSE
      <4>1. ~(prompts > 0)
        BY <2>3
      <4>. DEFINE a == agent \in Alive
                  c == report # NoResult
      <4>2. a \in BOOLEAN /\ (agent \in Alive <=> a) /\ c \in BOOLEAN /\ (report # NoResult <=> c)
        OBVIOUS
      <4>. HIDE DEF a, c
      <4>3. newest = [alive |-> a, prompted |-> FALSE, reported |-> c]
        BY <4>1, <4>2, NewestIs
      <4>. QED
        BY <4>3
    <3>2. TRUE \in Lifecycle!MayLive
      BY <2>3, <3>1 DEF Lifecycle!MayLive
    <3>. QED
      BY <2>1, <3>2 DEF Lifecycle!Lives
  <2>. QED
    BY <1>2, <2>2, <2>3 DEF Quiet
<1>3. CASE agent' \notin Alive
  <2>1. newest' = [newest EXCEPT !.alive = FALSE]
    <3>1. (agent' \in Alive) = FALSE
      BY <1>3
    <3>. QED
      BY <1>1, <3>1
  <2>2. FALSE \in Lifecycle!MayLive
    BY DEF Lifecycle!MayLive
  <2>. QED
    BY <2>1, <2>2 DEF Lifecycle!Lives
<1>. QED
  BY <1>2, <1>3

\* What a report and a prompt are to newest.
LEMMA NewestFields ==
    /\ newest.alive <=> agent \in Alive
    /\ newest.prompted <=> prompts > 0
    /\ newest.reported <=> report # NoResult
BY DEF newest

\* Each step of a tick is a step of the life of the Job, or none.
LEMMA LifecycleStep ==
    TypeOK /\ ExclusiveInv /\ ReviewedInv /\ RecoveryInv /\ LifecycleInv /\ [Next]_vars
        => [Lifecycle!Next]_<<stage, turn, job.head, job.round, newest, verdicts, job.auto>>
<1>. SUFFICES ASSUME TypeOK, ExclusiveInv, ReviewedInv, RecoveryInv, LifecycleInv, [Next]_vars
              PROVE  Lifecycle!Next
                     \/ UNCHANGED <<stage, turn, job.head, job.round, newest, verdicts, job.auto>>
  OBVIOUS
<1>. DEFINE Goal == \/ Lifecycle!Next
                    \/ UNCHANGED <<stage, turn, job.head, job.round, newest, verdicts, job.auto>>
<1>0. AboutAttempt /\ InFlight /\ DispatchInv
  BY DEF RecoveryInv
<1>1. ASSUME NEW l \in Lane, PrepareAttempt(l) PROVE Lifecycle!Begins
  <2>1. /\ job.state = ReadyState(l) /\ job'.state = RunningState(l) /\ job'.attempt.lane = l
        /\ job'.head = job.head /\ job'.round = job.round /\ job'.auto = job.auto
        /\ agent' = "absent" /\ report' = NoResult /\ prompts' = 0 /\ UNCHANGED verdicts
    BY <1>1, PrepareShape
  <2>2. stage = "ready" /\ stage' = "running" /\ turn' = turn
    BY <2>1, Stages, NextStages, RecoveringIsApart
  <2>3. ~newest.alive
    <3>1. agent \notin Alive
      BY <2>1, LaneStates DEF ExclusiveInv, SingleLiveAgent, Ready
    <3>. QED
      BY <3>1, NewestFields
  <2>4. newest' = Lifecycle!Fresh
    <3>1. agent' \notin Alive /\ ~(prompts' > 0) /\ ~(report' # NoResult)
      BY <2>1 DEF Alive
    <3>. QED
      BY <3>1, NextNewestIs DEF Lifecycle!Fresh
  <2>. QED
    BY <2>1, <2>2, <2>3, <2>4 DEF Lifecycle!Begins
<1>2. CASE Prompt
  <2>1. /\ job.state \in Running /\ prompts = 0 /\ UNCHANGED <<job, report, verdicts>>
        /\ agent \notin {"working", "blocked", "stopped"}
    BY <1>0, <1>2 DEF Prompt, ExclusiveInv, DispatchInv
  <2>2. stage = "running" /\ UNCHANGED <<stage, turn, job.head, job.round, job.auto>>
    BY <2>1, Stages DEF stage, turn
  <2>3. CASE agent \in Alive /\ agent' = "working" /\ prompts' = prompts + 1
    <3>1. newest.alive /\ ~newest.prompted
      BY <2>1, <2>3, NewestFields
    <3>2. newest' = [newest EXCEPT !.prompted = TRUE]
      <4>1. /\ agent \in Alive /\ agent' \in Alive /\ report' = report
            /\ ~(prompts > 0) /\ prompts' > 0
        BY <2>1, <2>3 DEF Alive
      <4>. DEFINE t == TRUE
      <4>. DEFINE f == FALSE
      <4>. DEFINE c == report # NoResult
      <4>2. /\ t \in BOOLEAN /\ f \in BOOLEAN /\ c \in BOOLEAN
            /\ agent \in Alive <=> t
            /\ agent' \in Alive <=> t
            /\ prompts > 0 <=> f
            /\ prompts' > 0 <=> t
            /\ report # NoResult <=> c
            /\ report' # NoResult <=> c
        BY <4>1
      <4>3. newest' = [newest EXCEPT !.prompted = t]
        <5>. HIDE DEF t, f, c
        <5>1. newest = [alive |-> t, prompted |-> f, reported |-> c]
          BY <4>2, NewestIs
        <5>2. newest' = [alive |-> t, prompted |-> t, reported |-> c]
          BY <4>2, NextNewestIs
        <5>. QED
          BY <5>1, <5>2, NewestGoesOn
      <4>. QED
        BY <4>3
    <3>. QED
      BY <2>1, <2>2, <3>1, <3>2 DEF Lifecycle!Dispatches, Lifecycle!Next
  <2>4. CASE agent' \in {agent, "closed"} /\ UNCHANGED prompts
    <3>1. Quiet
      BY <2>1, <2>4 DEF Quiet, Alive
    <3>. QED
      BY <2>1, <2>2, <3>1, QuietLives DEF Lifecycle!StartsOrEnds, Lifecycle!Next
  <2>. QED
    BY <1>2, <2>1, <2>3, <2>4 DEF Prompt
<1>3. CASE AgentReports /\ World
  <2>1. /\ agent = "working" /\ report = NoResult /\ report' # NoResult
        /\ UNCHANGED <<job, agent, prompts>>
    BY <1>3 DEF AgentReports, ledger, NoResult, WorkerReport, ReviewerReport
  <2>2. job.state \in Engaged
    BY <1>3, <2>1
    DEF World, ExclusiveInv, SingleLiveAgent, Alive, LifecycleInv
  <2>3. stage \in Lifecycle!Open /\ turn = job.attempt.lane
    BY <2>2, Stages
  <2>4. UNCHANGED <<stage, turn, job.head, job.round, job.auto>>
    BY <2>1 DEF stage, turn
  <2>5. prompts > 0
    BY <1>0, <2>1 DEF DispatchInv, TypeOK
  <2>6. newest.alive /\ newest.prompted /\ ~newest.reported
    BY <2>1, <2>5, NewestFields DEF Alive
  <2>7. newest' = [newest EXCEPT !.reported = TRUE]
    <3>1. agent \in Alive /\ agent' \in Alive /\ prompts' > 0
      BY <2>1, <2>5 DEF Alive
    <3>. DEFINE t == TRUE
    <3>. DEFINE f == FALSE
    <3>2. /\ t \in BOOLEAN /\ f \in BOOLEAN
          /\ agent \in Alive <=> t
          /\ agent' \in Alive <=> t
          /\ prompts > 0 <=> t
          /\ prompts' > 0 <=> t
          /\ report # NoResult <=> f
          /\ report' # NoResult <=> t
      BY <2>1, <2>5, <3>1
    <3>3. newest' = [newest EXCEPT !.reported = t]
      <4>. HIDE DEF t, f
      <4>1. newest = [alive |-> t, prompted |-> t, reported |-> f]
        BY <3>2, NewestIs
      <4>2. newest' = [alive |-> t, prompted |-> t, reported |-> t]
        BY <3>2, NextNewestIs
      <4>. QED
        BY <4>1, <4>2, NewestGoesOn
    <3>. QED
      BY <3>3
  <2>8. UNCHANGED verdicts \/ (turn = "reviewer" /\ \E h \in verdicts' : verdicts' = verdicts \union {h})
    BY <1>3, <2>3 DEF AgentReports, WorkerReport, TypeOK, Job, Attempt, Lane
  <2>. QED
    BY <2>3, <2>4, <2>6, <2>7, <2>8 DEF Lifecycle!Reports, Lifecycle!Next
<1>4. ASSUME Quiet PROVE Lifecycle!Lives /\ UNCHANGED verdicts
  BY <1>4, QuietLives, Stages DEF Quiet
<1>5. ASSUME Quiet, GoesOn PROVE Goal
  <2>1. UNCHANGED <<stage, turn, job.head, job.round, job.auto>>
    BY <1>5 DEF GoesOn, stage, turn
  <2>. QED
    BY <1>4, <1>5, <2>1 DEF Lifecycle!StartsOrEnds, Lifecycle!Next
<1>6. ASSUME Quiet, Blocks PROVE Goal
  <2>1. /\ job.state \in Engaged /\ job'.state = "blocked"
        /\ job'.attempt.lane = job.attempt.lane
        /\ UNCHANGED <<job.head, job.round, job.auto>>
    BY <1>6 DEF Blocks
  <2>2. stage' = "held" /\ turn' = turn /\ stage \in Lifecycle!Open
    BY <2>1, Stages, NextStages
  <2>. QED
    BY <1>4, <1>6, <2>1, <2>2
    DEF Lifecycle!Holds, Lifecycle!StartsOrEnds, Lifecycle!Next, Lifecycle!Open
<1>7. ASSUME Quiet, Authorizes PROVE Lifecycle!Authorizes
  <2>. DEFINE given == [rule |-> job.incident.rule, lane |-> turn, head |-> job.head]
  <2>1. /\ job.state = "blocked" /\ job'.state = "recovery_approved"
        /\ job'.approval.basis = "policy_rule" /\ job'.attempt = job.attempt
        /\ UNCHANGED <<job.head, job.round>> /\ job.incident.rule # "none"
        /\ job.incident.rule \in {"provider_pre_side_effect_transient", LaneRule(job.attempt.lane)}
    BY <1>0, <1>7, AuthorizesShape
  <2>2. stage = "held" /\ stage' = "authorized" /\ turn' = turn /\ turn = job.attempt.lane
    BY <2>1, Stages, NextStages
  <2>3. given \notin job.auto /\ job'.auto = job.auto \union {given}
    BY <1>0, <1>7, <2>2, AuthorizesShape
  <2>4. job.incident.rule \in Lifecycle!Rules
    BY <2>1, <2>2 DEF Lifecycle!Rules, LaneRule
  <2>5. ~newest.reported
    <3>1. report = NoResult
      BY <1>0, <2>1 DEF DispatchInv, Recovering
    <3>. QED
      BY <3>1, NewestFields
  <2>. QED
    BY <1>4, <1>7, <2>1, <2>2, <2>3, <2>4, <2>5 DEF Lifecycle!Authorizes
<1>8. ASSUME Quiet, Advises PROVE Goal
  <2>1. /\ job.state = "blocked" /\ job'.state = "blocked" /\ job'.attempt = job.attempt
        /\ UNCHANGED <<job.head, job.round, job.auto>>
    BY <1>8 DEF Advises, TypeOK, Job
  <2>2. stage' = stage /\ turn' = turn
    BY <2>1, Stages, NextStages
  <2>. QED
    BY <1>4, <1>8, <2>1, <2>2 DEF Lifecycle!StartsOrEnds, Lifecycle!Next
<1>9. CASE SettleAttempt
  <2>1. /\ job.state \in Engaged /\ agent \notin Alive /\ report # NoResult
        /\ UNCHANGED <<agent, report, prompts, verdicts>> /\ job'.auto = job.auto
    BY <1>0, <1>9, SettleShape
  <2>2. stage \in Lifecycle!Open /\ turn = job.attempt.lane
    BY <2>1, Stages
  <2>3. Lifecycle!Accepts /\ newest' = newest
    <3>1. newest.reported /\ ~newest.alive
      BY <2>1, NewestFields
    <3>2. newest' = newest
      BY <2>1 DEF newest
    <3>. QED
      BY <2>2, <3>1, <3>2 DEF Lifecycle!Accepts
  <2>4. CASE /\ job.attempt.lane = "worker" /\ job'.state = "reviewer_ready"
             /\ job'.head \in Nat /\ job'.head > job.head /\ job'.round = job.round
    <3>1. stage' = "ready" /\ turn' = "reviewer"
      BY <2>4, NextStages, LaneStates
    <3>. QED
      BY <2>1, <2>2, <2>3, <2>4, <3>1 DEF Lifecycle!AcceptsWork, Lifecycle!Next
  <2>5. CASE /\ job.attempt.lane = "reviewer" /\ job.head \in verdicts
             /\ job'.state = "publish_ready" /\ job'.head = job.head /\ job'.round = job.round + 1
    <3>1. stage' = "published" /\ turn' = "reviewer" /\ job.round < MaxReviewRounds
      BY <2>1, <2>5, NextStages
      DEF RecoveryInv, RoundsInv, Engaged, Running, Recovering
    <3>. QED
      BY <2>1, <2>2, <2>3, <2>5, <3>1 DEF Lifecycle!AcceptsPass, Lifecycle!Next
  <2>6. CASE /\ job.attempt.lane = "reviewer" /\ job.round + 1 < MaxReviewRounds
             /\ job'.state = "worker_ready" /\ job'.head = job.head /\ job'.round = job.round + 1
    <3>1. stage' = "ready" /\ turn' = "worker"
      BY <2>6, NextStages, LaneStates
    <3>. QED
      BY <2>1, <2>2, <2>3, <2>6, <3>1 DEF Lifecycle!AcceptsChanges, Lifecycle!Next
  <2>. QED
    BY <1>0, <1>9, <2>4, <2>5, <2>6, SettleShape
<1>10. CASE SaveFreshLane
  <2>1. PICK l \in Lane :
           /\ l = RetryLane(job.approval.action)
           /\ job.state = "recovery_approved" /\ job'.state = ReadyState(l) /\ agent \notin Alive
           /\ UNCHANGED <<job.head, job.round, job.auto, agent, report, prompts, verdicts>>
    BY <1>0, <1>10, FreshLaneShape
  <2>2. stage \in Lifecycle!Answered /\ stage' = "ready" /\ turn' = l
    BY <2>1, Stages, NextStages DEF Lifecycle!Answered
  <2>3. stage = "authorized" => l = turn
    BY <1>0, <2>1, Stages DEF AboutAttempt
  <2>4. newest' = newest /\ ~newest.alive
    <3>1. newest' = newest
      BY <2>1 DEF newest
    <3>. QED
      BY <2>1, <3>1, NewestFields
  <2>. QED
    BY <2>1, <2>2, <2>3, <2>4, LaneStates DEF Lifecycle!Retires, Lifecycle!Next
<1>11. CASE Operator
  <2>1. /\ job.state = "blocked" /\ job'.state \in {"blocked", "recovery_approved", "cancelled"}
        /\ job'.state = "recovery_approved" => job'.approval.basis # "policy_rule"
        /\ UNCHANGED <<agent, report, prompts, verdicts, job.head, job.round, job.auto>>
        /\ job'.attempt = job.attempt
    BY <1>11, OperatorShape
  <2>2. stage = "held" /\ stage' \in {"held", "answered", "cancelled"} /\ turn' = turn
    BY <2>1, Stages, NextStages
  <2>3. newest' = newest
    BY <2>1 DEF newest
  <2>. QED
    BY <2>1, <2>2, <2>3 DEF Lifecycle!Answers, Lifecycle!Next
<1>12. Quiet \/ Prompt \/ (AgentReports /\ World) \/ \E l \in Lane : PrepareAttempt(l)
  BY QuietSteps
<1>. QED
  BY <1>0, <1>1, <1>2, <1>3, <1>5, <1>6, <1>7, <1>8, <1>9, <1>10, <1>11, <1>12, Shapes
  DEF Lifecycle!Next

\* The Attempts of one Job go through the life JobLifecycle tells, for all bounds.
THEOREM JobsAreDelivered == Spec => JobIsDelivered
<1>1. Init => Lifecycle!Init
  <2>. SUFFICES ASSUME Init PROVE Lifecycle!Init
    OBVIOUS
  <2>1. /\ job.state = "worker_ready" /\ job.head = 0 /\ job.round = 0 /\ job.auto = {}
        /\ agent \notin Alive /\ ~(prompts > 0) /\ ~(report # NoResult) /\ verdicts = {}
    BY DEF Init, Alive
  <2>2. stage = "ready" /\ turn = "worker"
    BY <2>1, Stages, LaneStates
  <2>3. newest = Lifecycle!Fresh
    BY <2>1, NewestIs DEF Lifecycle!Fresh
  <2>. QED
    BY <2>1, <2>2, <2>3 DEF Lifecycle!Init
<1>. QED
  BY <1>1, LifecycleStep, TypeCorrect, ExclusiveInvariant, ReviewedInvariant, RecoveryInvariant,
     LifecycleInvariant, PTL DEF Spec, JobIsDelivered, Lifecycle!Spec, Lifecycle!lifecycle

=============================================================================
