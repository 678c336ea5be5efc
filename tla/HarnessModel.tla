---------------------------- MODULE HarnessModel ----------------------------
(***************************************************************************)
(* The vocabulary every component of the Harness shares: the closed value  *)
(* sets of model.ts and the recovery table of policy.ts.  Module constants *)
(* only, no state.                                                         *)
(***************************************************************************)
EXTENDS Naturals

Lane == {"worker", "reviewer"}

JobState ==
    {"claimed", "worker_ready", "worker_running", "reviewer_ready",
     "reviewer_running", "publish_ready", "awaiting_merge", "blocked",
     "recovery_approved", "done", "cancelled"}

AttemptPhase == {"prepared", "pane_ready", "agent_ready", "running", "settled"}

BlockClass ==
    {"agent_decision", "agent_blocked", "review_uncertain",
     "reviewer_preflight_dirty", "validation_infrastructure",
     "infrastructure_exhausted", "integrity_violation", "stale_task",
     "ci_failure", "ci_rework_exhausted", "analyst_unavailable"}

RetryAction == {"retry_fresh_worker", "retry_fresh_reviewer"}

RecoveryAction == RetryAction \union {"hold"}

MAX_CI_REWORKS == 2
MAX_ATTEMPT_RECONCILIATIONS == 1

\* What an incident of a class and lane may be answered with; "hold" always.
allowedActionsFor(class, lane) ==
    {"hold"} \union
      ( IF class \in {"agent_decision", "agent_blocked", "review_uncertain", "ci_failure"}
          THEN {"retry_fresh_worker"}
        ELSE IF class \in {"reviewer_preflight_dirty", "validation_infrastructure"}
          THEN {a \in {"retry_fresh_reviewer"} : lane = "reviewer"}
        ELSE IF class = "infrastructure_exhausted"
          THEN {IF lane = "reviewer" THEN "retry_fresh_reviewer" ELSE "retry_fresh_worker"}
        ELSE {} )

\* The states a lane of work goes through.
ReadyState(lane)   == IF lane = "worker" THEN "worker_ready" ELSE "reviewer_ready"
RunningState(lane) == IF lane = "worker" THEN "worker_running" ELSE "reviewer_running"

\* The lane a retry action starts afresh.
RetryLane(action) == IF action = "retry_fresh_reviewer" THEN "reviewer" ELSE "worker"
=============================================================================
