--------------------------- MODULE ClaimLifecycle ---------------------------
(***************************************************************************)
(* From an idle slot to a Job with a worktree, and from a finished Job     *)
(* back to an idle slot: selectJob, advanceClaim and archive against the   *)
(* labels of the issues, which people change at the same time.  What       *)
(* happens to the Job in between is `working` here.                        *)
(***************************************************************************)
EXTENDS Eligibility

CONSTANT MaxEdits       \* bound: what people do to issues

ASSUME EditsAssumption == MaxEdits \in Nat

VARIABLES
    shape,      \* how the issues are nested
    issue,      \* the issues on GitHub
    job,        \* activeJob
    done,       \* terminalJobs that are done
    tick,       \* the tick in flight: what it has done and read
    worktree,   \* Herdr made the worktree of the Job, whether the ledger knows it or not
    pane,       \* what is left of the agent of its active Attempt
    stamped,    \* GitHub's updatedAt of the issue is not the one of the task
    touched,    \* history: people acted since the Job was selected
    moved,      \* history: people acted since the graph was last read
    cut,        \* history: a tick was cut short after it had put the claim label
    edits       \* how often people acted

ghosts == <<touched, moved, cut, edits>>
below  == <<worktree, pane>>
vars   == <<shape, issue, job, done, tick, worktree, pane, stamped, touched, moved, cut, edits>>

\* analyst and claimConfirmed are saved together, so `confirmed` is both; `hold`
\* says that the Analyst's advice for the incident is to hold.
JobState == {"none", "claimed", "working", "blocked", "cancelled", "done"}
Class    == {"none", "stale_task", "analyst_unavailable", "integrity_violation", "work"}
Job == [state : JobState, issue : Issue \union {NoIssue}, confirmed : BOOLEAN, class : Class, hold : BOOLEAN]

NoJob == [state |-> "none", issue |-> NoIssue, confirmed |-> FALSE, class |-> "none", hold |-> FALSE]

At   == {"idle", "picked", "issue", "claim", "labelled", "worktree", "requeued", "closed", "released"}
Idle == [at |-> "idle", issue |-> NoIssue, open |-> FALSE]
Goes(at) == [Idle EXCEPT !.at = at]

TypeOK ==
    /\ shape \in Shapes
    /\ issue \in [Issue -> Snapshot]
    /\ job \in Job
    /\ job.state # "none" <=> job.issue \in Issue
    /\ job.class # "none" <=> job.state \in {"blocked", "cancelled"}
    /\ done \subseteq Issue
    /\ tick \in [at : At, issue : Issue \union {NoIssue}, open : BOOLEAN]
    /\ pane \in {"none", "open", "refuses"}
    /\ {worktree, stamped, touched, moved, cut} \subseteq BOOLEAN
    /\ edits \in 0..MaxEdits

Init ==
    /\ shape \in Shapes
    /\ issue = [i \in Issue |-> [open |-> TRUE, ready |-> TRUE, claimed |-> FALSE, assigned |-> FALSE]]
    /\ job = NoJob /\ done = {} /\ tick = Idle /\ worktree = FALSE /\ pane = "none"
    /\ stamped = FALSE /\ touched = FALSE /\ moved = FALSE /\ cut = FALSE /\ edits = 0

-----------------------------------------------------------------------------
(* selectJob.                                                              *)

\* listIssueGraph; then preflight, the base and the ids.
ReadFrontier ==
    /\ job = NoJob /\ tick = Idle
    /\ selectNextTask(shape, issue, done) # NoIssue
    /\ tick' = [Goes("picked") EXCEPT !.issue = selectNextTask(shape, issue, done)]
    /\ stamped' = FALSE /\ touched' = FALSE /\ moved' = FALSE /\ cut' = FALSE
    /\ UNCHANGED <<shape, issue, job, done, edits, below>>

\* A new Job has a branch and a path of its own.
SaveSelection ==
    /\ tick.at = "picked" /\ tick' = Idle
    /\ job' = [NoJob EXCEPT !.state = "claimed", !.issue = tick.issue]
    /\ worktree' = FALSE
    /\ UNCHANGED <<shape, issue, done, pane, stamped, ghosts>>

-----------------------------------------------------------------------------
(* advanceClaim, before the claim is confirmed.                            *)

\* block: the incident is saved and the tick is over.
Block(class) ==
    /\ tick' = Idle
    /\ job' = [job EXCEPT !.state = "blocked", !.class = class]
    /\ UNCHANGED <<shape, issue, done, stamped, ghosts, below>>

Proceeds(at) ==
    /\ tick' = Goes(at)
    /\ UNCHANGED <<shape, issue, job, done, stamped, touched, cut, edits, below>>

\* The digest of the issue is not the one of the task: GitHub stamped it since,
\* or a blocker, all of which were closed at the selection, is open again.
Drifted == stamped \/ \E b \in Blockers[job.issue] : issue[b].open

Unconfirmed == tick = Idle /\ job.state = "claimed" /\ ~job.confirmed

\* getIssue finds the claim label: the claim is the Job's own.
RecogniseClaim ==
    /\ Unconfirmed /\ issue[job.issue].claimed
    /\ LET stale == Drifted \/ ~issue[job.issue].open
       IN  \/ stale /\ Block("stale_task")
           \/ ~stale /\ Proceeds("labelled") /\ UNCHANGED moved

\* getIssue finds no label.
ReadIssue ==
    /\ Unconfirmed /\ ~issue[job.issue].claimed
    /\ tick' = [Goes("issue") EXCEPT !.open = issue[job.issue].open]
    /\ UNCHANGED <<shape, issue, job, done, stamped, ghosts, below>>

\* Mutant: the issue is read again, the frontier is not.
ReadGraph_IssueOnly ==
    /\ tick.at = "issue"
    /\ \/ (Drifted \/ ~tick.open) /\ Block("stale_task")
       \/ ~Drifted /\ tick.open /\ Proceeds("claim") /\ moved' = FALSE

\* listIssueGraph again: the Job's issue must still be the one to select.
ReadGraph ==
    /\ tick.at = "issue"
    /\ LET stale == selectNextTask(shape, issue, done) # job.issue \/ Drifted \/ ~tick.open
       IN  \/ stale /\ Block("stale_task")
           \/ ~stale /\ Proceeds("claim") /\ moved' = FALSE

\* Mutant: the label is put in one tick, and confirmed in the next.
claimIssue_OwnTick ==
    /\ tick.at = "claim" /\ tick' = Idle
    /\ issue' = [issue EXCEPT ![job.issue].claimed = TRUE, ![job.issue].ready = FALSE]
    /\ stamped' = TRUE
    /\ UNCHANGED <<shape, job, done, ghosts, below>>

\* GitHub stamps an issue whose labels change, and the stamp is in the digest.
claimIssue ==
    /\ tick.at = "claim" /\ tick' = Goes("labelled")
    /\ issue' = [issue EXCEPT ![job.issue].claimed = TRUE, ![job.issue].ready = FALSE]
    /\ stamped' = TRUE
    /\ UNCHANGED <<shape, job, done, ghosts, below>>

\* analyst.start is idempotent for a Job, or fails.
StartAnalyst ==
    /\ tick.at = "labelled"
    /\ \/ Block("analyst_unavailable")
       \/ /\ tick' = Idle /\ job' = [job EXCEPT !.confirmed = TRUE]
          /\ UNCHANGED <<shape, issue, done, stamped, ghosts, below>>

\* Herdr makes a branch and a worktree, or fails: a worktree that is there already is
\* not looked up (herdr-cli.ts:48), so it is made once.
CreateWorktree ==
    /\ tick = Idle /\ job.state = "claimed" /\ job.confirmed /\ ~worktree
    /\ worktree' = TRUE /\ tick' = Goes("worktree")
    /\ UNCHANGED <<shape, issue, job, done, pane, stamped, ghosts>>

\* It answers with the identity it was asked for, or another.
SaveWorktree ==
    /\ tick.at = "worktree"
    /\ \/ Block("integrity_violation")
       \/ /\ tick' = Idle /\ job' = [job EXCEPT !.state = "working"]
          /\ UNCHANGED <<shape, issue, done, stamped, ghosts, below>>

-----------------------------------------------------------------------------
(* The rest of the Job, and the operator.                                  *)

\* Attempts and delivery: blocked and recovered any number of times, or merged.  A
\* blocked Job may have an agent, which the runtime may refuse to close for ever
\* (AttemptRuntime, BlockedIsClosed).  The pull request says "Closes #issue".
Work ==
    /\ tick = Idle /\ job.state = "working"
    /\ \/ /\ job' = [job EXCEPT !.state = "blocked", !.class = "work"]
          /\ pane' \in {"none", "open", "refuses"} /\ UNCHANGED <<issue, stamped>>
       \/ /\ job' = [job EXCEPT !.state = "done"]
          /\ issue' = [issue EXCEPT ![job.issue].open = FALSE] /\ stamped' = TRUE /\ UNCHANGED pane
    /\ UNCHANGED <<shape, done, tick, worktree, ghosts>>

\* diagnoseOrWait, and a recovery that is approved and applied: it closes the agent
\* first.  Without an Analyst the tick only reports that it waits.
Diagnose ==
    /\ tick = Idle /\ job.state = "blocked" /\ job.confirmed /\ ~job.hold
    /\ \/ job' = [job EXCEPT !.hold = TRUE] /\ UNCHANGED pane
       \/ job.class = "work" /\ pane # "none" /\ pane' = "refuses" /\ UNCHANGED job
       \/ /\ job.class = "work" /\ pane # "refuses" /\ pane' = "none"
          /\ job' = [job EXCEPT !.state = "working", !.class = "none"]
    /\ UNCHANGED <<shape, issue, done, tick, worktree, stamped, ghosts>>

\* operatorActionsFor offers cancel_and_requeue (the pull request is Delivery's).
CanBeCancelled(j) == j.state = "blocked" /\ j.hold /\ j.confirmed

cancelHeldJob ==
    /\ CanBeCancelled(job)
    /\ job' = [job EXCEPT !.state = "cancelled"]
    /\ UNCHANGED <<shape, issue, done, tick, stamped, ghosts, below>>

-----------------------------------------------------------------------------
(* archive.                                                                *)

\* closeAttempt of the agent that a cancelled Job has left: the tick goes on, or ends.
\* What was closed is found closed by the next one.
closeAttempt ==
    /\ tick = Idle /\ job.state = "cancelled" /\ pane = "open"
    /\ pane' \in {"none", "refuses"}
    /\ UNCHANGED <<shape, issue, job, done, tick, worktree, stamped, ghosts>>

\* Mutant: the issue is put back whether its agent is gone or not.
requeueIssue_Unconfirmed ==
    /\ tick = Idle /\ job.state = "cancelled" /\ tick' = Goes("requeued")
    /\ issue' = [issue EXCEPT ![job.issue].claimed = FALSE, ![job.issue].ready = TRUE]
    /\ stamped' = TRUE
    /\ UNCHANGED <<shape, job, done, ghosts, below>>

\* Mutant: a requeue that failed does not keep the Job.
requeueIssue_BestEffort ==
    /\ tick = Idle /\ job.state = "cancelled" /\ pane = "none" /\ tick' = Goes("requeued")
    /\ \/ issue' = [issue EXCEPT ![job.issue].claimed = FALSE, ![job.issue].ready = TRUE] /\ stamped' = TRUE
       \/ UNCHANGED <<issue, stamped>>
    /\ UNCHANGED <<shape, job, done, ghosts, below>>

\* An agent that could not be closed keeps the issue, and the Job.
requeueIssue ==
    /\ tick = Idle /\ job.state = "cancelled" /\ pane = "none" /\ tick' = Goes("requeued")
    /\ issue' = [issue EXCEPT ![job.issue].claimed = FALSE, ![job.issue].ready = TRUE]
    /\ stamped' = TRUE
    /\ UNCHANGED <<shape, job, done, ghosts, below>>

\* analyst.close, of a cancelled Job after its requeue, of a done one first.
closeAnalyst ==
    /\ tick.at = "requeued" \/ (tick = Idle /\ job.state = "done")
    /\ tick' = Goes("closed")
    /\ UNCHANGED <<shape, issue, job, done, stamped, ghosts, below>>

\* A label that stays is only a warning.
releaseIssueClaim ==
    /\ tick.at = "closed" /\ job.state = "done" /\ tick' = Goes("released")
    /\ \/ issue' = [issue EXCEPT ![job.issue].claimed = FALSE] /\ stamped' = TRUE
       \/ UNCHANGED <<issue, stamped>>
    /\ UNCHANGED <<shape, job, done, ghosts, below>>

\* Mutant: a done Job waits until its claim label is gone.
SaveArchive_WaitsForLabel ==
    /\ tick.at = "released" \/ (tick.at = "closed" /\ job.state = "cancelled")
    /\ ~issue[job.issue].claimed
    /\ job' = NoJob /\ tick' = Idle
    /\ done' = IF job.state = "done" THEN done \union {job.issue} ELSE done
    /\ UNCHANGED <<shape, issue, stamped, ghosts, below>>

\* The save that frees the slot.
SaveArchive ==
    /\ tick.at = "released" \/ (tick.at = "closed" /\ job.state = "cancelled")
    /\ job' = NoJob /\ tick' = Idle
    /\ done' = IF job.state = "done" THEN done \union {job.issue} ELSE done
    /\ UNCHANGED <<shape, issue, stamped, ghosts, below>>

\* A call fails, a save fails, or the Controller dies; effects stay.
Interrupted ==
    /\ tick # Idle /\ tick' = Idle
    /\ cut' = (cut \/ tick.at = "labelled")
    /\ UNCHANGED <<shape, issue, job, done, stamped, touched, moved, edits, below>>

-----------------------------------------------------------------------------
(* People.  The claim label is the Controller's alone.                      *)

\* The issue of the Job, or of the selection in flight.
Subject == IF job.issue # NoIssue THEN job.issue ELSE tick.issue

Touches(i) ==
    /\ edits < MaxEdits /\ edits' = edits + 1
    /\ touched' = TRUE /\ moved' = TRUE
    /\ stamped' = (stamped \/ i = Subject)
    /\ UNCHANGED <<shape, job, done, tick, cut, below>>

\* Any change of an issue stamps it: its text, a comment, its assignee, a label,
\* its state.
HumanEdits(i) ==
    /\ Touches(i)
    /\ issue' \in {issue, [issue EXCEPT ![i].ready = ~@], [issue EXCEPT ![i].assigned = ~@],
                   [issue EXCEPT ![i].open = ~@]}

-----------------------------------------------------------------------------

Controller ==
    \/ ReadFrontier \/ SaveSelection \/ RecogniseClaim \/ ReadIssue \/ ReadGraph \/ claimIssue
    \/ StartAnalyst \/ CreateWorktree \/ SaveWorktree \/ Diagnose
    \/ closeAttempt \/ requeueIssue \/ closeAnalyst \/ releaseIssueClaim \/ SaveArchive

Next ==
    \/ Controller \/ Interrupted \/ Work \/ cancelHeldJob
    \/ \E i \in Issue : HumanEdits(i)

Spec == Init /\ [][Next]_vars

\* The driver ticks for ever, and what is tried again and again succeeds in the
\* end: the first call of a tick, its second, and so on.  What is not tried again, a
\* worktree that is there or an agent that refuses its end, is promised nothing.
Fairness ==
    /\ SF_vars(RecogniseClaim \/ ReadIssue \/ CreateWorktree \/ closeAttempt \/ requeueIssue)
    /\ SF_vars(ReadGraph \/ SaveWorktree \/ closeAnalyst)
    /\ SF_vars(claimIssue \/ releaseIssueClaim)
    /\ SF_vars(StartAnalyst \/ SaveArchive)

FairSpec == Spec /\ Fairness

-----------------------------------------------------------------------------

\* An issue is worked on under the claim label, through every crash between the label
\* and the ledger, and keeps it as long as an agent of its Job may be there.
WorkIsClaimed == job.state = "working" \/ pane # "none" => issue[job.issue].claimed

\* An issue whose Job is done is not worked on again, whatever its labels say.
DoneIsNeverRedone == job.issue \notin done

\* A claim label belongs to the active Job, or is what a done Job left behind.
NoOrphanClaim == \A i \in Issue : issue[i].claimed => i = job.issue \/ i \in done

\* What may be claimed, said of GitHub: nothing before it in its Map is open, and
\* it and its Map are open, ready, unassigned, unblocked and not done.
InOrder(i) ==
    /\ \A j \in {i} \union Owners(shape, i) : Executable(issue, j, done)
    /\ shape.sub[i] = <<>>
    /\ \A m \in Owners(shape, i) :
        /\ shape.parent[m] = NoIssue
        /\ \A k, l \in DOMAIN shape.sub[m] : k < l /\ shape.sub[m][l] = i => ~issue[shape.sub[m][k]].open

\* The claim label goes to an issue that is the strict frontier at the time it is
\* put, unless people acted after the last read of the graph.
ClaimsTheFrontier ==
    [][\A i \in Issue : issue'[i].claimed /\ ~issue[i].claimed /\ ~moved => InOrder(i)]_vars

\* Why the safety properties hold: what a tick in flight has done to the labels is
\* known from where it is, and the rest from the ledger.
ClaimInv ==
    /\ NoOrphanClaim /\ DoneIsNeverRedone
    /\ job.state \in {"working", "cancelled"} => job.confirmed
    /\ job.confirmed /\ job.state \in {"claimed", "working", "blocked"} => issue[job.issue].claimed
    /\ tick.at = "picked" => job = NoJob /\ tick.issue \in Issue \ done
    /\ tick.at \in {"issue", "claim", "labelled"} => job.state = "claimed" /\ ~job.confirmed
    /\ tick.at = "claim" /\ ~moved => InOrder(job.issue)
    /\ tick.at = "labelled" => issue[job.issue].claimed
    /\ tick.at = "worktree" => job.state = "claimed" /\ job.confirmed
    /\ tick.at = "requeued" => job.state = "cancelled" /\ ~issue[job.issue].claimed /\ pane = "none"
    /\ tick.at = "closed" /\ job.state = "cancelled" => ~issue[job.issue].claimed /\ pane = "none"
    /\ tick.at = "closed" => job.state \in {"done", "cancelled"}
    /\ tick.at = "released" => job.state = "done"
    /\ pane # "none" => job.state \in {"blocked", "cancelled"} /\ issue[job.issue].claimed

\* The Controller died between the making of a worktree and the save: no tick gets beyond
\* createWorktree any more.
WorktreeLost == job.state = "claimed" /\ worktree /\ tick.at # "worktree"

\* A selected issue is worked on, or its Job is blocked, and as stale only if people
\* acted, or a tick was cut short right after its own label (task-lifecycle.ts:103); a
\* worktree that was lost is the one way to be tried for ever.
ClaimsResolve ==
    job.state = "claimed" ~>
        \/ job.state = "working" \/ WorktreeLost
        \/ job.state = "blocked" /\ (job.class = "stale_task" => touched \/ cut)

\* A finished Job gives its slot back, if its agent can be closed.
SlotIsFreed == job.state \in {"done", "cancelled"} ~> job = NoJob \/ pane = "refuses"

\* A test: "a durable claim intent recovers when GitHub label mutation succeeded
\* before the process crashed".  A Job is stale only if people did something.
OwnClaimRecognised == job.class = "stale_task" => touched

\* diagnoseOrWait: "Analyst is unavailable; incident can only be held or cancelled".
HeldOrCancelled == job.state = "blocked" /\ ~job.confirmed => CanBeCancelled(job)

=============================================================================
