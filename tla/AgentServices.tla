---------------------------- MODULE AgentServices ----------------------------
(***************************************************************************)
(* What the agent of an Attempt relies on: the lease under which it        *)
(* authenticates, the compaction of its context, and, for a Reviewer, the  *)
(* validation and the evidence its verdict rests on.  None reads or writes *)
(* what another keeps (ReviewerEvidence takes the verdict of a validation  *)
(* as given), so that their product has a property of one of them if and   *)
(* only if that one alone has it: in a behaviour one runs and the others   *)
(* stay as they are.                                                       *)
(***************************************************************************)
EXTENDS CredentialLease, Naturals

CONSTANTS MaxReviews, MaxContexts, MaxSpoils    \* ReviewerEvidence
CONSTANTS MaxTurns, MaxCompactions              \* Compaction

VARIABLES worktree, plan, receipt, attempt, command, tick
VARIABLES reviews, files, reviewer, actual
VARIABLES turns, worker, pipe, auditor, aborted

VARIABLE running    \* the one that runs

Validation == INSTANCE ReviewerValidation
Evidence   == INSTANCE ReviewerEvidence
Compactor  == INSTANCE Compaction

ASSUME AgentServicesAssumption == Evidence!EvidenceBounds /\ Compactor!CompactionBounds

\* What each keeps, besides the lease.
validationVars == <<worktree, plan, receipt, attempt, command, tick>>
evidenceVars == <<reviews, files, reviewer, actual>>
compactionVars == <<turns, worker, pipe, auditor, aborted>>

agentVars == <<running, leaseVars, validationVars, evidenceVars, compactionVars>>

AgentInit ==
    /\ running \in {"lease", "validation", "evidence", "compaction"}
    /\ LeaseInit /\ Validation!ValidationInit /\ Evidence!EvidenceInit /\ Compactor!CompactionInit

LeaseRuns ==
    /\ running = "lease" /\ LeaseNext
    /\ UNCHANGED <<running, validationVars, evidenceVars, compactionVars>>

ValidationRuns ==
    /\ running = "validation" /\ Validation!ValidationNext
    /\ UNCHANGED <<running, leaseVars, evidenceVars, compactionVars>>

EvidenceRuns ==
    /\ running = "evidence" /\ Evidence!EvidenceNext
    /\ UNCHANGED <<running, leaseVars, validationVars, compactionVars>>

CompactionRuns ==
    /\ running = "compaction" /\ Compactor!CompactionNext
    /\ UNCHANGED <<running, leaseVars, validationVars, evidenceVars>>

AgentNext == LeaseRuns \/ ValidationRuns \/ EvidenceRuns \/ CompactionRuns

AgentSpec == AgentInit /\ [][AgentNext]_agentVars

-----------------------------------------------------------------------------
(* The properties, each stated with the code it is about in its module.     *)

AgentTypeOK ==
    LeaseTypeOK /\ Validation!ValidationTypeOK /\ Evidence!EvidenceTypeOK /\ Compactor!CompactionTypeOK

\* reviewer-validation-runner.ts: a verdict is the exit the command chose, in time, in its
\* only run, of the commit under review.
VerdictIsHonest == Validation!VerdictIsHonest

\* reviewer-tools.js: a result is what both axes and the validation came to, in this Attempt
\* or in the one it retries with the same context; and a Reviewer with all its
\* evidence holds the proposal it calls for, imported or made.
ReviewIsEarned == Evidence!VerdictIsEarned /\ Evidence!ProposalMatches

\* pi-rpc-compaction-compat.ts: no history is replaced in silence, and what the runner
\* records of a compaction is what the child did.
CompactionIsRecorded == Compactor!NoSilentCompaction /\ Compactor!RunnerRecordsCompaction
=============================================================================
