# A verification project for HerdrHarness-lite

HerdrHarness-lite drives one GitHub issue at a time from selection to a merged
pull request. A single-slot *Controller* keeps a durable ledger
(`state.json`, one `activeJob`), starts fresh coding and reviewing agents in a
worktree, accepts their results only for exact HEADs, publishes the reviewed
HEAD and watches CI and merge. Everything it cannot decide becomes an
*incident* that an Analyst comments and an operator answers.

The modules here are translated from `src/src/*.ts`. TLC checks them on small
instances; TLAPS proves the properties named below for all bounds.

## 1. The system

| Component | Source (`src/src/`) | State it keeps | Operations |
| --- | --- | --- | --- |
| Controller loop | `controller.ts`, `cli.ts` | none; one tick = load, effects, at most one save | `tick` dispatches on `job.state` |
| Job ledger | `adapters/json-store.ts` | `state.json`, `controller.lock`, `events.jsonl` | `load`, `save` (CAS on the revision of the active Job) |
| Controller lease | `controller-lease.ts` | `controller-lease.json` | acquire, release |
| Claim and archive | `controller/task-lifecycle.ts`, `eligibility.ts` | Job in `claimed`, `done`, `cancelled`; GitHub labels | `selectJob`, `advanceClaim`, `archive` |
| Attempt lifecycle | `controller/attempt-*.ts`, `controller/context.ts` | `activeAttempt`, `attempts`, `pendingHandoff`, `reviewRound` | prepare, open pane, start agent, prompt, observe, settle, block |
| Herdr runtime adapter | `adapters/herdr-cli.ts` | panes, termination intents and receipts | create, start, prompt, wait, terminate |
| Pi RPC runtime | `adapters/pi-rpc-runtime.ts`, `pi-rpc-runner.ts`, `pi-rpc-sdk-entry.ts`, `pi-rpc-compaction-compat.ts` | a spool directory of receipts, a runner process and its detached child | the same five, over files, a pipe and signals; one controlled compaction |
| Incidents and recovery | `controller/recovery-flow.ts`, `controller/automatic-recovery.ts`, `policy.ts`, `recovery.ts`, `handoff.ts` | `incident`, `analysis`, `approval`, `automaticRecoveries` | diagnose, authorise by policy, approve, resolve, reassess, cancel, apply |
| Reviewer evidence | `controller/reviewer-validation.ts`, `reviewer-validation-runner.ts`, `reviewer-checkpoints.ts`, `adapters/git-cli.ts`, `pi/extensions/reviewer-tools.js` | validation plan and receipt, checkpoint files, the extension's memory | validate, checkpoint, import, report an axis, submit |
| Credential startup | `credential-startup.ts` | one lease file per OAuth store | acquire, heartbeat, reclaim, release |
| Delivery | `controller/delivery.ts`, `adapters/github-gh.ts`, `adapters/git-cli.ts` | `pullRequest`, `ciFailure`, `ciReworkCount`, `baseSha`, `headSha` | publish, observe, refresh base, hold failed CI |
| Fleet | `fleet/*.ts` | `fleet-state.json`, the Supervisor's lease, one child per project | start, adopt, restart with backoff, trip, stop, reset, one-off tick |
| Observers and approval | `hermes-observer.ts`, `observer/*`, `hermes-approval.ts` | the view seen last with an outbox of notices; one challenge | observe, queue, dedupe, deliver; request and decide a challenge |
| Analyst, plans, preflight, transport, diagnostics | `adapters/json-command-analyst.ts`, `attempt-plan*`, `runtime-*`, `transport/*`, `diagnostics.ts` | none of the Job's | reasoning, preparation and rendering |

They interact through the ledger (every handler loads, and saves under CAS),
through files and processes of the runtimes, and through GitHub. Operator
commands, the approval bridge among them, are separate processes that save to the
same ledger; observers only read it. The Fleet's Supervisor starts Controllers and
knows them by their lease.

What is hard in it: a tick is a sequence of external effects with one save, and
may stop after any of them; agents act while the Controller decides; operators
save between its load and its save; GitHub merges, closes, reruns checks and
moves the base by itself; a runner, its child and the Controller die
independently and learn of each other from files; helpers and process groups
outlive whoever started them; and every failure path that is "retryable" is a
possible endless loop. `PROJECT.json` lists these hazards line by line, with the
properties aimed at them.

What makes each component correct:

* *Attempts*: one live agent per worktree, one prompt per agent, results bound
  to Attempt and HEAD, bounded retries without a human, rounds bounded, every
  Attempt ends.
* *Runtimes*: the prompt goes out once although a runner may be typed twice, a
  result that was handed over is final, a failure reported as clean left nothing
  behind, nothing of a closed Attempt works on, what is given up gets closed.
* *Recovery*: an approval is applied to what it was given for; every incident
  can be answered; a handoff is always consumable.
* *Reviewer evidence*: a verdict is the exit the command chose in its only run; a
  review rests on evidence made for this very context; a compaction is recorded
  as it happened.
* *Credentials*: no two processes authenticate with the same store at once.
* *Delivery*: only reviewed HEADs reach the pull request, `done` means merged,
  failed CI cannot merge by itself while held, a merge ends the Job.
* *Ledger and lease*: no lost update, one Controller, a crash leaves a file
  every later process can work with.
* *Claim*: an issue is claimed once, a claim that crashed is recognised, an
  archived slot is free.
* *Fleet*: restarts bounded per window, whoever supervises; an orderly stop leaves
  no child; a selected project has a Controller or a reason.
* *Observers and approval*: what was seen is told, once; an answer decides what its
  own card showed, once.

## 2. Modules

| Module | Models | Checked by |
| --- | --- | --- |
| `HarnessModel` | the value sets of `model.ts`, the recovery table of `policy.ts` | (extended by the others) |
| `JobLifecycle` | abstract: what the Attempts of one Job promise | (implemented by `AttemptLifecycle`) |
| `AttemptLifecycle` | Attempts, incidents, policy and recovery of one Job, from `worker_ready` to `publish_ready` or `cancelled` | `MCAttemptLifecycle`, `AttemptLifecycleProofs` |
| `Delivery` | from a reviewed HEAD to `done`, with base refreshes, CI holds and reworks | `MCDelivery`, `DeliveryProofs` |
| `AtomicLedger` | abstract: a register that is loaded, and replaced under a compare-and-set | (implemented by `StateStore`) |
| `StateStore` | `load` and `save` of `json-store.ts`, file operation by file operation | `MCCustody`, `CustodyProofs` |
| `ControllerLease` | acquire and release of `controller-lease.ts`, file operation by file operation | `MCCustody`, `CustodyProofs` |
| `Custody` | both together: Controllers and operator commands on one state directory | `MCCustody`, `CustodyProofs` |
| `Eligibility` | `selectNextTask` of `eligibility.ts`, as operators on an issue graph | (extended by `ClaimLifecycle`) |
| `ClaimLifecycle` | select, claim, confirm, create the worktree, archive and requeue, against issues that people edit | `MCClaimLifecycle`, `ClaimProofs` |
| `FleetSupervisor` | Supervisors, their state file and leases, the Controllers they start or adopt, and time | `MCFleetSupervisor`, `FleetProofs` |
| `RuntimePort` | one Attempt as the driver sees its runtime, whichever it is | (extended by the two below) |
| `PiRuntime` | Controller, runner and child of the Pi RPC adapter, over the spool | `MCAttemptRuntime`, `RuntimeProofs` |
| `HerdrRuntime` | the Herdr adapter and the agent under the Herdr server | `MCAttemptRuntime`, `RuntimeProofs` |
| `AgentTurn` | abstract: what a runtime promises the driver of an Attempt | (implemented by `AttemptRuntime`) |
| `AttemptRuntime` | the port over one of the two, chosen by the Attempt's execution snapshot | `MCAttemptRuntime`, `RuntimeProofs` |
| `Compaction` | the controlled compaction: the child's compactor, the pipe, the runner's audit | `MCAgentServices`, `AgentProofs` |
| `CredentialLease` | the lease under which processes authenticate | `MCAgentServices`, `AgentProofs` |
| `ReviewerValidation` | the validation command, its process group, its plan and its receipt | `MCAgentServices`, `AgentProofs` |
| `ReviewerEvidence` | checkpoints across Reviewer Attempts and the tools that make them | `MCAgentServices`, `AgentProofs` |
| `AgentServices` | the four above side by side | `MCAgentServices`, `AgentProofs` |
| `ProjectObserver` | both versions of the observer of a project | `MCHermes`, `HermesProofs` |
| `FleetObserver` | the observer of the Fleet | `MCHermes`, `HermesProofs` |
| `OperatorApproval` | challenges, their cards, and racing presses of their buttons | `MCHermes`, `HermesProofs` |
| `Hermes` | the three above side by side | `MCHermes`, `HermesProofs` |

There are three kinds of composition. `Custody` and `AttemptRuntime` compose parts
that share state: a tick needs the lease to save, and the port and the adapter
below it hand `op` and `result` to each other. `StateStore` implements
`AtomicLedger` (`Register == INSTANCE AtomicLedger WITH ...`), and `AttemptLifecycle`
implements `JobLifecycle` (`Lifecycle == INSTANCE JobLifecycle WITH ...`), each as a
property of a run and as a theorem; `AttemptRuntime` implements `AgentTurn`
(`Turn == INSTANCE AgentTurn WITH ...`), as a theorem. `AgentServices` and `Hermes` put machines side by side that
share nothing; a variable `running` picks, at the start, the one that moves.
Since none reads what another keeps, every behaviour of one of them is a
behaviour of the whole with the others at rest, and a property of one of them
holds of it alone if and only if it holds there. For the lease that is a
theorem (`ServicesShareLease`); the other proofs are about the whole.

### How a tick is modelled

`tick()` loads the ledger, performs external effects and saves at most once.
An action that has no effect before its save is one step. Where an effect
precedes the save (open a pane, start an agent, close one, request auto-merge,
merge the base) or follows it (the prompt), the tick is split and `tick.at`
names what has been done. Between the parts every other actor may act, and the
Controller may crash (`Crash`, `Interrupted`), which forgets the tick and keeps
the effects. The compare-and-set of `JsonStateStore.save` is `tick.fresh` in
`AttemptLifecycle` (an operator who saves makes a tick in flight stale) and the
reset of `tick` by the operator's gates in `Delivery`.

### AttemptLifecycle

`job` is `activeJob`, with its Attempt, handoff, incident, analysis and approval
as records; `agent` is the runtime behind the newest Attempt (`closed` once its
close is confirmed); `report` is what a parse of the result file returns; `tree`
is the worktree as the Git checks see it. `orphaned`, `prompts`, `verdicts`,
`tries` and `decisions` are history and decide nothing, except that `decisions`
bounds the operator. A tick that is refused and saves nothing ends at a point of its own
(`Refusal`), so that the liveness properties can tell it from one that is idle.

| Action | Code |
| --- | --- |
| `PrepareAttempt`, `BlockReviewerPreflight`, `ReviewerValidation` | `attempt-preparation.ts`, the Reviewer part of `attempt-driver.ts` |
| `CreateAttemptPane`, `SavePaneReady`, `StartAgent`, `SaveAgentReady`, `PersistRunning`, `Prompt` | the phases of `attempt-driver.ts` |
| `ObserveNothing`, `FinishObservedAttempt`, `CloseCompletedAttempt`, `SettleAttempt` | observation, `attempt-reconciliation.ts`, `attempt-settlement.ts`, with `reconcileLateAttemptResult` of `recovery-flow.ts` |
| `StartDiagnosis`, `RecordAdvice`, `AuthorizeProviderRecovery` | `diagnoseOrWait`, `automatic-recovery.ts` |
| `approveRecovery`, `resolveDecision`, `reassessIncident`, `cancelHeldJob` | `recovery.ts` |
| `ApplyRecovery`, `CloseRetiredAttempt`, `SaveFreshLane` | `applyRecovery` |
| `FailPreflight`, `FailToRead`, `EndRefused` | `runRuntimePreflight` in `driveAttempt`; a Git call that throws out of a tick or, before a Provider retry, is called retryable |
| `AgentEdits`, `AgentReports`, `AgentYields`, `TreeDrifts`, `OperatorCleansTree` | the agents and people in the worktree |

Abstractions: identities alternate between two names, which is as good as fresh
ones where they are only compared with what the ledger still holds. A Reviewer
result `failed` is treated as `blocked` by `finishReviewer` and is one kind
here. A provider rule's `notBefore` may have passed at any time. The
`resultPath` of a new Attempt is a new file. Legacy reassessment forms, the
validation receipts on the late path and the evidence requests of
`runDiagnosis` are left out.

`JobLifecycle` is what all this amounts to for whoever waits for the Job, answers its
incidents or reads what it accepted. It knows of a stage (`ready`, `running`, `held`,
`authorized` by a rule or `answered` by a human, `published`, `cancelled`), whose work it
is, and of the newest agent only whether it is alive, was prompted and has reported. It
promises that an Attempt begins when no agent is left (`Begins`); an agent is prompted
once and reports once (`Dispatches`, `Reports`); what is accepted was reported by an agent
that is gone, an implementation with a new HEAD, a review with a `pass` for this HEAD and
within the rounds (`AcceptsWork`, `AcceptsPass`, `AcceptsChanges`); a rule authorizes
nothing that left a report, and nothing twice on one HEAD (`Authorizes`); and only a
human's answer changes the lane (`Retires`). The mapping is `stage`, `turn` and `newest`
in `AttemptLifecycle`; ticks, panes, handoffs, receipts and crashes map to nothing or to
an agent that starts or ends.

### Delivery

`job` keeps what delivery decides by (`base`, `head`, `pr`, `ci`, the class of
its incident, the Analyst's advice, `reworks`); a commit is a pair of the
Worker commits and the base it contains. `pr`, `remote` and `base` are GitHub's,
and change by GitHub's own steps between any two calls. A call that fails and a
Controller that dies are both `Interrupted`: every handler here answers a failed
call by ticking again. Attempts are single steps (`CompleteWorker`,
`PassReview`, `RequestChanges`).

| Action | Code |
| --- | --- |
| `StartPublish`, `Push`, `EnsurePullRequest`, `RequestAutoMerge`, `SavePublished` | `publish` in `delivery.ts` and `github-gh.ts` |
| `ObserveDrift`, `ObserveMerged`, `ObserveClosed`, `ObserveFailedChecks`, `SuspendAutoMerge`, `HoldFailedChecks`, `ObserveOpen` | `observeMerge`, `observePullRequest` |
| `RefreshBase`, `SyncBase`, `SaveRefreshed` | `refreshBaseForReview`, `syncBase` |
| `RecoverCi`, `MergedWhileHeld`, `ReplaceCiIncident`, `Diagnose` | `reconcileBlockedCi`, `diagnoseOrWait` |
| `ApplyRecovery` | the CI part of `applyRecovery`, with its save |
| `Push`, `Merge`, `ReportChecks`, `HumanClosesOrReopens`, `BaseMoves`, `PushForeign` | GitHub, people, other pushers |

Abstractions: `autoMerge` is configured on; required checks exist; the local
branch is changed by Workers and by `syncBase` only (so `git push <branch>`
pushes the Job's HEAD; the hazard is listed); failed checks come in two digests.

### StateStore, ControllerLease and Custody

The other modules take a save for one step. `StateStore` is why they may: its
variables are the files (`state`, `lock`, `temp`, `audit`) and the locals of each
writer (`loaded`, `next`, and `step`, how far its save is). A writer is a
process; it may die after every file operation (`StoreCrash`), and a write may
fail halfway (`Torn`). The abstract `AtomicLedger` is the promise: a writer
between its load and the end of its save holds what it loaded, and replaces the
ledger in one step if the revision is still the same. The refinement mapping
takes `state` and `loaded` as they are and derives `holders` from `step`.

| Action | Code |
| --- | --- |
| `Load`, `OpenLock`, `LockHeld`, `WriteTemp`, `GiveUp`, `Rename`, `AppendAudit`, `Unlock` | `load` and the lines of `save`, in their order |
| `RemoveStaleLock` | a person, after a crash; never while the creator is in its save |
| `Start`, `Create`, `WriteLease`, `WriteFails`, `AlreadyExists`, `ReadLease`, `Judge`, `Reread`, `RemoveDead`, `ChangedWhileAcquiring` | `acquireControllerLease`, `readLease`, `processIsAlive` |
| `Stop`, `CheckRelease`, `Release` | the `finally` of `cli.ts`, `release` |
| `ControllerTicks`, `ControllerFails`, `OperatorDecides`, `Saves`, `HoldsLease`, `Dies` | who does which of these, and when (`cli.ts`) |

A lease is named by its creator: `instanceId` is a fresh UUID and each process
acquires once. `Judge` may take a dead owner for a living one (another process
has its pid), never the reverse. `lease` is who created the file and whether its
content is there; a process that writes after its file was removed writes to a
file nobody sees. A save that throws ends the Controller: `cli.ts` has no handler
around `tick`, only the `finally` that releases. `swapped` and `saver` are
history and decide nothing. The heartbeat file is left out.

### Eligibility and ClaimLifecycle

`Eligibility` translates `selectNextTask`: Maps first, by their strict frontier,
then standalone issues; the lowest key wins. `shape` (how issues are nested) does
not change; `Blockers` neither, only whether a blocker is open. `InOrder` says
what may be claimed without following the code: of the graph itself, position by
position. `ClaimsTheFrontier` compares the two at the moment the label is put.

`job` is `activeJob` reduced to what claim and archive decide by; `working` stands
for everything between the worktree and the end, which `AttemptLifecycle` and
`Delivery` model. `analyst` and `claimConfirmed` are saved together, so one flag,
`confirmed`, is both (which makes lines 128 to 140 of `task-lifecycle.ts`
unreachable; they are not modelled). `tick.at` names the calls a tick has made.
`stamped` says that GitHub's `updatedAt` of the issue has changed since the
selection, which is what `Drifted` compares of the digest, with the blockers.
`worktree` says that Herdr has made the Job's worktree, which the ledger may not know;
`pane`, what is left of its agent: nothing, one that can be closed, or one that refuses
its end for ever, as `runtime_close` shows of the runtime. `touched`, `moved` and `cut`
are history and decide nothing.

| Action | Code |
| --- | --- |
| `ReadFrontier`, `SaveSelection` | `selectJob` |
| `RecogniseClaim`, `ReadIssue`, `ReadGraph`, `claimIssue`, `StartAnalyst`, `CreateWorktree`, `SaveWorktree` | `advanceClaim`, one per call, and the last save |
| `Block` | `ControllerContext.block` |
| `Diagnose`, `cancelHeldJob` | `diagnoseOrWait` with an approved recovery; the operator's `recovery.ts` |
| `closeAttempt`, `requeueIssue`, `closeAnalyst`, `releaseIssueClaim`, `SaveArchive` | `archive`, in this order |
| `Interrupted`, `Work`, `HumanEdits` | failures and deaths; the rest of the Job; people |

Abstractions: reading the graph is one step (the adapter lists it and then follows
references one by one), and so is a label edit that adds one label and removes
another. The adapter's limits (100 issues listed, 200 in a graph) are left out.
People edit any issue in any way except that the claim label is the
Controller's: the code has no answer to people who move it. An edit stamps the
issue even when it changes nothing else here (its text, a comment). Merging
closes the issue, because the pull request says "Closes". How an agent is closed is
`AttemptRuntime`'s; here it is closed, or refuses.

### FleetSupervisor

`sup` is how far each Supervisor process is, `mem` its `state.projects`, `disk` the
state file; `ctl` and `lease` are the Controller processes and their leases as
`observeLeasePath` sees them. Timestamps are kept as ages, which `Time` advances and
which stop counting where no guard can tell. `fresh` are the projects whose record a
Supervisor did not take over, because they are disabled or configured differently since
(`supervisor.ts:349`). `failures` and `blind` are history: what really ended early under
the present configuration, and whether a failed write, an unselected project, a record
read too soon, or a second Supervisor has lost it.

| Action | Code |
| --- | --- |
| `Launch` | the constructor, which reads the state before it has the lease |
| `ConfirmStale`, `UnlinkStale`, `run`, `RunFails` | `acquireFleetLease`, whose removal of a dead lease may hit a living one put there since, and the first save |
| `Adopt`, `MalformedLease`, `spawnProject`, `SpawnFails`, `AdoptedEnds` | `resumeOrStart`, the backoff timer, the poll of an adopted Controller |
| `handleOwnedExit`, `decideRestart` | the exit of a child and `restart-policy.ts` |
| `Stop`, `Kill`, `Finish`, `Crash` | SIGTERM, the end of the grace period, the last save, death |
| `resetFleetProject`, `runProjectTick` | the operator's `fleet reset` and `fleet tick` |
| `acquireControllerLease`, `WriteLease`, `Ends`, `RemoveLease`, `Time` | Controllers (two file operations to a lease), people, the clock |

Three things the code does are visible here and have no property of their own: a
Controller that dies between creating and writing its lease leaves a malformed one,
which is `error` until a person removes it (`supervisor.ts:119`, `:240`); a Supervisor
that reads the lease between those two operations of a living Controller comes to the
same conclusion and never looks again, although the Controller serves; and a spawn that
yields no process id ends the Supervisor, whose other children live on. `Kill` is sent to
children by their handles, which answer `false` for one that is gone; a call that throws
(`supervisor.ts:304`) needs a signal the system does not know and is left out. So is the
moment between load and save of a reset, which holds the lease meanwhile.

### RuntimePort, PiRuntime, HerdrRuntime and AttemptRuntime

`phase` is the Attempt in the ledger, `op` the operation the Controller is in, `tabs`
and `open` what Herdr shows, `result` the versions of the result file and `taken` the
one that was handed over. `RuntimePort` is the driver: the operation begins from the
durable phase (`Begin`), fails, succeeds, or is given up (`Retire`, `Deadline`).

In `PiRuntime`, `spool` has a field for each receipt; `run[r]` is a runner, `child[r]`
its detached agent, `ctl` where the Controller is in its operation. Waits are
bounded, so a slow process is one more reason for a timeout, and a timeout is a choice.

| Action | Code |
| --- | --- |
| `TakesOwnership`, `RecordsItself` to `Confirms`, `Dies` | `pi-rpc-runner.ts`, one per file it publishes (the first are `owner.json` and the progress that names the runner), command it sends or event it hears |
| `TakesPrompt`, `Works`, `Says`, `Exits` | the agent under `pi-rpc-sdk-entry.ts` |
| `StartAgent`, `TypesRunner`, `Dispatches`, `WaitsForTerminal`, `Terminates` | the five operations of `pi-rpc-runtime.ts` |
| `Polls`, `LooksAtRunner` | `waitForReceipt`, which reads first and looks at the process second |
| `AsksToTerminate`, `Identifies`, `RefusesToKill`, `Kills`, `ChecksExit`, `Observes` | `cleanupRuntime`, `forceRuntimeCleanup` (which kills only what `ps` names as the runner and the child), the end of `wait` |
| `HerdrStartsAgent`, `HerdrPrompts`, `HerdrTooLate`, `HerdrStalls`, `HerdrObserves`, `HerdrEnds` | the operations of `herdr-cli.ts` |
| `RecordsIntent`, `ClosesAgentPane`, `ConfirmsAgentGone` | `terminateBounded` |
| `AgentSettles`, `AgentIsAnswered`, `AgentWrites`, `AgentExits` | the agent under Herdr, and the person who answers it |

`AgentTurn` is what all of this amounts to for the driver: a turn that is ahead, under
way, stopped at a question or over; whether a person answered; versions written; the
version handed out; closed or not. Under either adapter `agentTurn` is "working" while
somebody who has the prompt is alive and did not stop to ask (of Pi RPC's children,
whoever is prompted; Herdr's agent by its status), "asking" while Herdr's agent waits for
an answer, "ahead" while the prompt can still come (`AwaitsPrompt`: Pi RPC's children show
whether it came; Herdr's agent does not, so there the ledger's phase and the operation
tell), and "over" otherwise. `closed`, `written` and `handed` are `phase`, `result` and
`taken`. `answered` is a history variable of `HerdrRuntime`, which no action reads. It
states the one exception: a person who answers an agent in its pane after its result was
read can still make it write another (`wait` hands over whatever result file is there, of
a blocked agent too); the pane is open until the Attempt is closed.

Caveats that the properties state rather than hide: `CleanFailureStaysClean` is not
promised when a runner failed to stop its child and died before it could write
`terminated.json`; a runner that dies between `spawn` and recording the child
(`pi-rpc-runner.ts:484` and `:510`) leaves a child that nothing can name, which a later
forced cleanup then calls terminated (`ClosedNeverWorks` therefore admits a child that
was never prompted); and a receipt that is due before a failed terminal is reported as
that failure (`pi-rpc-runtime.ts:402`).

### Compaction, CredentialLease, ReviewerValidation and ReviewerEvidence

`Compaction`: `worker` is the compactor inside the child (`NextTurn`, `Prepares`,
`RequestsSummary`, `AppliesSummary`), `pipe` its events, `auditor` what
`acceptControlledCompactionEvent` makes of them (`RunnerHears`). A compaction of Pi's own
(`CompactsByItself`) is the disagreement the audit exists for.

`CredentialLease`: the lease file may be absent, torn (created, not written) or a
record that is fresh or old. `Reclaims` is the helper process under the native lock; it
outlives whoever started it, so `reclaims` is a set of its own. A torn lease whose
creator is dead stays until a person removes it. A heartbeat that fails is only reported
when the launcher stops (`credential-startup.ts:379`): until then it is `faulty` and
authenticates like one that holds the lease (`Authenticates`).

`ReviewerValidation`: `command` is the process group (its leader, the rest of it, how
often it ran, and whether it ended by itself), `tick` what the Controller remembers. The
steps are those of `runReviewerValidation` and of the runner's `stop`, `finish` and
`stopRemainingProcessGroup`; the Controller may crash at each, and the command outlives
it.

`ReviewerEvidence`: `reviews` are the Attempts with the checkpoints they import, `files`
what each published, `reviewer` the extension's memory, `actual` (history) what the axes
and the validation really came to. `Spoils` is any change to a published file. What
a checkpoint is bound to besides its Attempt is its `context`. A verdict of a
validation is taken as given (`Validates`), which `ReviewerValidation` justifies.
Left out: the 64-finding limit of an aggregate (two axes may have 65 between them, and
then nothing can be submitted); a result that cannot be written after its final
checkpoint can never be submitted again, which `SubmitsBlocked` shows.

### ProjectObserver, FleetObserver, OperatorApproval and Hermes

`ProjectObserver`: `project` is what there is to see, `observer` the state file (a view,
and an outbox), `cycle` the place in `flush`, `observe`, `report`. `Observes` is all
reads of a cycle with their save; an outbox that is full ends the process in version 1
and cuts what is told of the log at the first line that does not fit in version 2. `Sends`, `SendsAndDies`,
`FailsToSend`, `Withdraws` are deliveries, which may arrive and still count as failed.
`chat` and `since` are history. `FleetObserver` is the same idea for the Supervisor's
projection; an alarm carries the name of the Fleet, which is read again for each, and while
it cannot be read the process dies of the alarm (`WatchThrows`).

`OperatorApproval`: `challenge` is the one file, `issued` (history) the cards ever
shown, `press[p]` a process that answers a card: it reads the challenge, reads the
ledger, decides through `decide --option`, looks for the record of its decision and
saves. A card is likewise asked for and saved in two steps (`Requests`, `Issues`; `asking`
holds the card in between), so that the Job and other cards move on meanwhile.
`StillCurrent` is the check inside the command, under the compare-and-set.
An older press that saves late overwrites a newer challenge; the properties hold all
the same.

What the observers leave out: an automatic recovery authorised between two polls hides
the incident it answered, by design; a line of a mebibyte or more stalls the log; both
files are saved through a temporary file of a fixed name.

## 3. Runs

Twelve runs; every property of a passing one has a mutant of a definition that it
refutes.

* `attempts_safety` (`MaxHead = 2`, `MaxReviewRounds = 2`, `MaxDecisions = 1`, with the
  constraint `TwoChanges`: of a first commit, a second one, a retry granted by an operator
  and a worktree that is dirty, two at a time): two review rounds, so that `changes` leads to
  a second one and to the limit, and a stale HEAD of the first exists to be confused with
  the second; and one granted retry on top of the policy retries, so that an old Attempt, a
  retired one and a fresh one coexist; with any number of crashes, failed closes and
  reassessments. Dirt comes and goes as often as it likes.
* `attempts_liveness` (1, 2, 1, `FairSpec`, with the constraint `DisturbedInFirstRound`: the
  retry an operator grants and dirt in the worktree are followed through the first round, one
  at a time): a recovery may be approved by a policy rule or by an operator, and what ends,
  ends by the Controller. Its properties name the ticks that are refused for ever as
  exceptions. It is also where `AttemptLifecycle` implements `JobLifecycle`
  (`JobIsDelivered`): every action of that module happens, and `JobsAreDelivered` (section
  5.1) is the same for all bounds.
* `delivery_safety` (`MaxWork = 3`, `MaxBase = 1`, `FairSpec`): three Worker commits are
  the first publication and both CI reworks, so that the limit `MAX_CI_REWORKS = 2` is
  reached and exceeded; one base move besides the one a merge makes.
* `delivery_rereview` (2, 1): the code disagrees with a test; see section 6.
* `custody_safety` (three Controllers, one operator, one archived Job, one revision): one
  Controller to leave a dead lease and two to find it; a Job is selected, evolved and
  archived, so that a writer can be overtaken by each. Controllers are symmetric.
* `claim_safety` (`MaxEdits = 3`, four issues, `FairSpec`): a Map with two children, the
  same with the second nested below the first, and a blocker of the first child. Three
  edits are enough to take an issue out of the order, put it back and reopen one that is
  done. The ledger needs no bound: an issue is done once.
* `fleet_safety` (one project, two Supervisors, one Controller process at a time,
  `MaxRestarts = 1`, `Window = 1`, `MaxRunning = 1`): the second Supervisor follows the
  first, or races it to the lease; the Controller is one that it starts or one that it
  adopts. Projects only meet in the state file, which is written whole, so one is enough
  for these properties; the loss of another project's record is `blind`. Processes are
  symmetric. `MaxRunning` leaves the swapped lease out (section 6), which multiplies the
  states: with two that run at once only the theorems of 5.5 speak, and they do for every
  number. A restart budget of 0, which the configuration allows, is theirs too.
* `fleet_liveness` (one Supervisor, two Controllers, `Window = 2`, `StableAfter = 2`,
  `FairSpec`): longer times, so that a run can be stable, and a failure can leave the
  window, on the way; the second Controller is in the way of the first.
* `runtime_safety` (two runners, `MaxResults = 1`): a runner typed twice by two
  Controllers is the reason for ownership; one result is enough to be handed over, to be
  late, or to belie a clean failure. Both adapters are initial states of the run.
* `runtime_close` (one runner, no result, `FairSpec`): see section 6.
* `hermes_safety` (observer: two Jobs, one incident, one log line, one fault, an outbox of
  two, a window of one terminal Job; approval: two presses, two challenges, two revisions;
  Fleet observer: two changes): the outbox and the window can overflow, a second card
  replaces the first while its press is in flight, an alarm can come, go and come back. With
  one log line either all news of the log fits or none does; that a part of it fits is left
  to the theorems of 5.8, which speak of any number of lines.
* `agent_safety` (lease: three processes, so that a helper reclaims for a parent that gave
  up while another holds; validation: no bound; evidence: two Reviewer Attempts, two
  contexts, one spoiled file; compaction: three turns, the policy's one compaction).

`CHECK_DEADLOCK FALSE` where it stands: a Job that is cancelled, done, published or
waiting for an operator who never comes really stops, as do agents, Attempts, claims and
presses that are over. The Fleet's runs check for deadlock: time goes on.

## 4. Fairness

The driver loop (`cli.ts`: `while`, tick, sleep) ticks for ever, and every call of a tick
is bounded by a timeout. Hence in `AttemptLifecycle` a tick that may take a step takes it
(`WF(TickStep)`, `WF(TickEnd)`); a save is strongly fair, because an operator can overtake
it only `MaxDecisions` times; and a close that is asked for again and again is answered in
the end, with a confirmation or a refusal (`SF(CloseAnswered)`). Nothing says that it is
ever confirmed (`runtime_close` shows that the adapters may refuse for ever), that a machine
gets ready for an agent, or that Git tells the state of a worktree: a tick that ends that
way passes through `unready`, `unread` or `kept`, and the liveness properties hold unless
tick after tick does (`Refusals`, each with the reasons that apply to it). Agents, operators
and GitHub owe nothing: an agent may hang for ever.

In `Delivery` the groups of Controller steps are strongly fair: calls that are tried again
and again succeed in the end although every tick may be interrupted. `ClaimLifecycle`
assumes the same of its calls, the first of a tick, its second and so on, as far as they
are tried again: a worktree that is there already is not made, and an agent that refuses
its end is not closed. `ClaimsResolve` and `SlotIsFreed` name these two as exceptions.
People, operators and the work on a Job owe nothing.

In `FleetSupervisor` a running event loop reaches its timers and events, time passes, and
the system does not refuse a process for ever; no Controller, person or Supervisor is
obliged to start, stop or recover. In `AttemptRuntime` one Controller goes on ticking, its
waits end, processes that can be killed are killed in the end, and panes that can be
closed are closed; `ps`, asked again and again, names a process that is there; the
Controller does not crash there, so that what is never closed is not the crash's doing.

## 5. Proofs

TLAPS checks every theorem from the definitions TLC runs; nothing is assumed but the
named assumptions on the constants, which say that bounds are naturals (some at least
one, where the code has a minimum), that the name for "nobody" is nobody's, that a writer
is either a Controller or an operator, and what form an issue graph has (section 5.4).
TLC evaluates them in the runs. Every safety invariant of a passing run is a theorem. Each
rests on an inductive invariant, which stands at the end of the module it is about or at
the head of its proof, and is shown to be preserved action by action.

### 5.1 AttemptLifecycleProofs

For every `MaxHead`, `MaxReviewRounds` and `MaxDecisions`:

* `TypeCorrect`: `TypeOK` is inductive as it stands.
* `AttemptsAreExclusive` and `PromptsAreOnce` (`SingleLiveAgent`, `PromptedAtMostOnce`) from
  `ExclusiveInv`: that a phase past the pane has a durable handle, that ready states have
  no handle left, that a tick in the middle of opening, starting or prompting is still
  about the phase it loaded, and that the ticks which replace an Attempt (`settle`,
  `retry`) have seen its agent gone. Without these, a step that replaces the Attempt
  could start from a state in which its agent is alive.
* `ReviewedBeforePublication` (`PublishedHeadWasReviewed`) from `ReviewedInv`: the report
  an accepting tick carries cannot change while the tick closes the agent, and for a
  `pass` is about the Job's HEAD.
* `UnattendedWork`, `RecoveriesAlwaysBind` and `PoliciesLoseNothing`
  (`UnattendedWorkIsBounded`, `RecoveriesBind`, `PolicyRetriesLoseNothing`) from
  `RecoveryInv`, with the two above. Its parts: `AboutAttempt`, a Job that runs, is
  blocked or recovers is about its Attempt, and so is its incident, and the rule of an
  approval by policy; `InFlight`, what a tick was started for still stands when it saves;
  `DispatchInv`, an agent that was never prompted did nothing, and an incident names a
  rule only if its agent left nothing; `BudgetInv`, every Attempt after the first was
  paid for, by an authorization (`Spent`) or by a human; `RoundsInv`, the round limit is
  not reached before publication. The account is kept in `automaticRecoveries`, which no
  later save forgets, so a lane has two authorizations for a HEAD, however its Attempts
  end. The steps fall into few shapes
  (`GoesOn`, `Blocks`, `Authorizes`, `Advises`, and the four that replace an Attempt); each
  shape keeps the ledger's part, `LedgerInv`, and only `InFlight` and `DispatchInv` go
  action by action.

* `JobsAreDelivered` (`JobIsDelivered`): `Spec` implements `JobLifecycle`. Besides the
  three invariants it needs `LifecycleInv`: where a Job can be, that an Attempt is for
  the next review, and that a Worker's report which a tick is accepting names a new HEAD
  (checked when the report was read, relied on after the agent was closed). Each shape
  maps to one action; the steps that are `Quiet` (they leave prompts, report and verdicts
  alone) differ in the agent only as `StartsOrEnds` allows, so that the shape decides;
  `Prompt`, `AgentReports` and `PrepareAttempt` go by themselves.

### 5.2 DeliveryProofs

For every number of Worker commits and base moves, all safety properties of
`delivery_safety`: `DeliveryLandsReviewedWork`, `DeliveryReviewsRecordedBase`,
`DeliveryHoldsFailedChecks` and `DeliveryRecoveryBinds`, from `DeliveryInvHolds`. None of
the four is inductive. `DeliveryInv`, which is, adds to the types:

* `CommitsInv`: neither the ledger nor the HEAD it names is ahead of the base.
* `ReviewInv`: what may be published was reviewed, and the worktree is either at that HEAD
  or ahead of it by a merge with a base the ledger does not have, which is merged again
  before anything is pushed; the remote branch is empty, foreign or reviewed. The second
  half is what an interrupted base refresh leaves behind, and the reason a republication
  cannot push an unreviewed merge.
* `CiInv`: held checks are bound to the published HEAD, which has lost its auto-merge.
* `TickInv`: a tick in the middle of its calls is still about the Job it loaded; it knows
  of an auto-merge if there is one when it is about to suspend it, and there is none left
  when it saves the hold.

### 5.3 CustodyProofs

For any writers, Controllers, operators and bounds:

* `StoreImplementsLedger`: `StoreSpec` implements `AtomicLedger` under the mapping of
  section 2. `StoreInv` is the argument: who is past `OpenLock` is named by the lock
  file, hence alone, so what it compared stays true, and what it wrote stays in
  the temporary file, until its rename. Each step then maps to a load, a save, a
  drop, or nothing.
* `AuditIsTrue`, from the same invariant.
* `LeaseExcludes`: `LeaseInv` says that whoever was judged dead stays dead (a
  process starts once), so that until a lease is swapped, the file at the path
  is the file its owner created.
* `CustodyComposes`: each step of `Custody` is a step of both parts or leaves one
  alone, so the composed system inherits both.
* `TicksYieldToOperatorsOnly`: with `OwnersTick`, a Controller in a load or a save
  owns the lease, so another Controller's save in between would make two owners.

### 5.4 ClaimProofs

For any issues, blockers, nestings and number of edits. The assumption on the graph
(`IssueAssumption`): issue numbers are positive, and a Map lists a child once. Blockers
and nestings may be cyclic.

* `SelectedInOrder` (a lemma): what `selectNextTask` answers is `InOrder`. This is
  the correctness of the selection for every graph; it rests on the minimum of
  a set of naturals being its least element, which the prover does not know.
* `ClaimTypeCorrect`, with `ClaimInv`: where a tick in flight is tells what it has
  done to the labels, and the ledger tells the rest. `NoOrphanClaim` alone is not
  inductive: that an archived Job's label is gone follows only from the requeue
  that the same tick has made, and that its agent is gone, from the close before it.
* `ClaimsAreAccounted`, `DoneStaysDone`, `WorkUnderClaim` and `FrontierOnly` (`NoOrphanClaim`,
  `DoneIsNeverRedone`, `WorkIsClaimed`, `ClaimsTheFrontier`), from the same invariant.

### 5.5 FleetProofs

For any projects, processes, window and budget, 0 included, and any number of Supervisors
that run at once:

* `StopsAreClean` (`StopIsClean`). `OwnersRun` adds that once a Supervisor is killing,
  whatever it owns has exited; that is what makes its `Finish`, which forgets its
  children, safe.
* `BudgetIsKept` (`RestartBudget`) from `Informed`: whoever supervises knows of every
  failure in the window, and so does the file that the next one will read, unless what
  was known was lost (`blind`), as it is for two that run at once; and a record whose circuit is not open holds `MaxRestarts`
  timestamps at most. The property alone says nothing of a record that nobody uses at the
  moment, so a crash, after which the file takes over, would break the induction. `Agrees`
  says it of the three things it is about, so that one lemma each covers a change of
  phase, a failure (`Restarts`) and the passing of time (`KnowledgeAges`), and one lemma
  each a Supervisor that writes (`Writes`) and one that is gone (`Ended`), whatever the
  reason. `run` is the step at which a record is lost silently, which `Forgotten`
  admits, or given up on purpose: of what is `fresh`, `Informed` says that nothing was
  taken over.

  The rest is about histories: timestamps stand in the order they were taken, hence the
  filter of `decideRestart` drops a prefix. `Recent` is therefore the end of a sequence,
  which needs no recursion, and `RecentIsFilter` shows that it keeps exactly the
  timestamps of the window.

### 5.6 RuntimeProofs

For any number of runners typed into a pane and of results written, over both adapters:
`RuntimeIsTyped`, `OneAgentIsPrompted` (`PromptedOnce`), `ResultsAreFinal`
(`ResultIsFinal`), `CleanFailuresStayClean` and `ClosedAttemptsAreQuiet`
(`ClosedNeverWorks`), from `RuntimeInv`, whose parts are

* `OwnerInv`: only the runner named in `owner.json` ever runs, has a child or has it
  prompted; its child is spawned and recorded before anybody prompts it. A spool has no
  owner under Herdr.
* `ChildInv` and `TerminalInv`: what `terminal.json` says stays true, because its runner
  has no step left that could write a result or wake the child.
* `OperationInv`: a cleanup has asked for termination before it kills, and its list of
  processes includes a child that was prompted.
* `Quiet`: `terminated.json` saying "ok" means that nobody works, and nobody will.
* `HerdrInv`: the same of a pane and its intent.

`Sound` puts together what a step may rely on of the owner, its child and the receipts.
Steps of a runner or its child go through `RunnerKeeps`, the Controller's through
`ControllerKeeps`, `Concludes`, `CleansUpKeeps`, `GivesKeeps` and `StaysKeeps`, and all
others through `PiUndisturbed`. That a spawned runner has a child (`Spawned`) was missing
in the first form of the invariant, which TLC accepts because it is true, and which is
not inductive: from a state without it, a runner could record a child that is not there.

`RuntimesKeepTheTurn`: `AttemptRuntime` implements `AgentTurn` (`TurnIsKept`), and from
that alone `TurnsAreTakenOnce`: a result that was handed out is the last one written,
unless a person answered the agent, and a closed Attempt has no turn ahead or under way.
Besides `RuntimeInv` it takes `TurnInv`: an agent that settled was prompted, and one that
works or asks is past its prompt. A step of a process below a Pi RPC Controller moves one
child (`ProcessesTurn`), a step of that Controller at most kills one or hands over what
one left (`ControllerTurns`); `PiTurnIs` and `HerdrTurnIs` say what the mapping makes of
the state, and `TurnSteps` that whatever these steps do is a step of the contract or a
stutter. TLC found neither `TurnIsKept` nor `TurnInv` violated, on the bounds of
`runtime_safety` and with one runner and two results (add `PROPERTY TurnIsKept` and
`INVARIANT TurnInv` to its cfg), before they were proved; the theorem covers those
instances, so no run repeats them.

### 5.7 AgentProofs

For any number of processes, Attempts, contexts, turns and compactions:

* `OneAuthenticates` (`HolderOwnsLease`). `LeaseInv` adds `WriterCreated`: a lease that is
  being written is torn, and belongs to the one process that created it. A helper that
  outlived its parent replaces only a lease whose owner is dead when it does so, which is
  why what its parent saw need not be true any more.
* `ServicesShareLease`: the composition in `AgentServices` implements the lease, so that
  `AgentsTakeTurns`: it holds for all bounds of the other services too.
* `VerdictsAreHonest` (`VerdictIsHonest`) from `ValidationInv`: the plan is published before
  the command runs and the receipt after it (`ValidationOrder`), the Controller knows of
  the command what it saw and no more (`ValidationWatched`), and what it concluded is the
  exit of the only run, with nothing left of the process group (`ValidationConcluded`).
* `ReviewsAreEarned` (`ReviewIsEarned`) from `EvidenceInv`: a checkpoint that was not spoiled says what its stage came to
  (`FilesTrue`), a receipt or an import is of this Attempt or the one before, for the same
  context (`ReceiptsTrue`, `InputsTrue`), the extension remembers of an axis what it came
  to (`MemoryTrue`), and a verdict is of an Attempt that is settled (`ResultsSettled`).
* `CompactionsAreRecorded` (`CompactionIsRecorded`) from `CompactionInv`: the order of the
  compactor's steps (`CompactorSteps`), its last event is the last in the pipe
  (`SettledIsLast`, `EndIsTold`), and the pipe and the audit agree with what was done
  (`PipeAgrees`, `AuditAgrees`), unless Pi compacted on its own.

### 5.8 HermesProofs

For any Jobs, incidents, presses, challenges and changes; `HermesInv` is the product of
the three invariants, and each step of one machine leaves the other two alone.

* `HermesIsTyped`.
* `EndsAreNotForgotten` and `EndsAreNotReplayed` (`NothingForgotten`, `NoReplay`) from
  `ObserverInv`: the outbox is within its limit (`OutboxFits`) and the Observer is behind
  the project, never ahead of what it counts as seen (`ObserverFollows`).
* `AlarmsReachTheQueue` (`AlarmsAreTold`) from `FleetObserverInv`: nothing is owed before a
  phase is known, and nothing from a change that did not happen (`CalmIsPast`).
* `AnswersDecideTheirCard` (`AnswersAreExact`) from `ApprovalInv`: a token names one card
  (`TokensAreUnique`), a process holds what its own button's card showed
  (`SeenIsPressed`), and a decision leaves the revision it was taken under behind
  (`DecisionsMove`), so no second answer can be compared equal with it.

### 5.9 Only model-checked

* The liveness properties (`AttemptsEnd`, `ApprovedRecoveryEnds`, `IncidentsAreAnalysed`,
  `MergeIsNoticed`, `ClaimsResolve`, `SlotIsFreed`, `Supervised`): they rest on fairness.
* `TypeOK` of `FleetSupervisor`, which no run of its own checks: a backoff is a power of
  two, of which the provers do not know that it is a natural number. The proofs of 5.5
  need less than the types (`Tables`).
* The two runs that show a disagreement (section 6): they refute, so there is nothing to
  prove.

## 6. Where code and documents disagree

With a run that shows it:

* `delivery_rereview`: a test says that a newer base suspends auto-merge; the
  publish path refreshes the base without (`delivery.ts:15`), and the old HEAD
  may merge while the new one is under review.
* `runtime_close`: the operator's runbook says that an Attempt that is given up is
  terminated within bounds and closed. One that is blocked before the Pi adapter wrote its
  plan has nothing to be identified by, and under Herdr an intent recorded for one reason
  refuses a close for another (`herdr-cli.ts:439`): neither is ever closed.

As a definition that TLC refutes, without a run of its own:

* `CancelledHasNoPullRequest` (`Delivery`, `MaxWork = 2`, `MaxBase = 1`): `recovery.ts:17`
  retires a "held pre-PR job"; the pull request of an interrupted publication is not in
  the ledger, so a Job with an open pull request can be cancelled and its issue requeued.
* `MergeIsNeverMissed` (`Delivery`, `FairSpec`, `MaxWork = 2`, `MaxBase = 1`): a tick that has
  seen the pull request open goes on to refresh the base (`delivery.ts:103`). A person who
  merges in between is not seen: the Job is held, or goes to a new review of a branch that
  has landed, and no tick looks at the pull request again. `MergeIsNoticed` therefore
  excepts a tick that is past its look (`ReviewsAnew`), and nothing else.
* `MergeEndsRecovery` (`Delivery`, `FairSpec`, the same bounds): `ARCHITECTURE.zh-CN.md`
  ends a Job when its merge is observed; in `recovery_approved` a merged pull request is a
  "retryable" error, and the Job stays there for ever.
* `MutualExclusion` (`ControllerLease`, the bounds of `custody_safety`):
  `controller-lease.ts:16` promises to exclude concurrent Controllers; a takeover unlinks
  whatever lease is at the path by then, so two that found the same dead lease can both
  end up as owners. Everything they do then still goes through the compare-and-set, but
  external effects do not.
* `OwnClaimRecognised` (`ClaimLifecycle`, `MaxEdits = 1`): a test says that a claim
  recovers when the labels were changed before the crash; the digest it is compared with
  contains `updatedAt`, which GitHub changes with the labels, so the Controller finds its
  own claim stale and blocks the Job. The test's fake keeps `updatedAt`.
* `HeldOrCancelled` (the same): `recovery-flow.ts:33` tells the operator that a Job without
  an Analyst can be held or cancelled; cancelling needs an analysis, so it can only be
  held, and the slot with it. Together with the former, one crash in the wrong place ends
  the service until somebody edits the ledger.
* A worktree that is made and not saved (`WorktreeLost` in `ClaimLifecycle`, an exception of
  `ClaimsResolve`): `createWorktree` does not look for the worktree it made before, so
  after a crash between `herdr-cli.ts:48` and `task-lifecycle.ts:168` every tick is refused,
  and nothing but a person with Herdr gets the Job on.
* `OneSupervisor` (`FleetSupervisor`, the bounds of `fleet_safety` with `MaxRunning = 2`):
  `acquireFleetLease` gives up when another Supervisor lives (`lease.ts:41`); like the
  Controller's, its takeover removes whatever lease is at the path by then (`:45-47`), so
  two that found the same dead lease can both run. Each then stops its own Controllers
  (`StopsAreClean`), but neither knows what the other's have failed (`RestartBudget` does
  not speak of such projects).
* `TripIsKept` (`FleetSupervisor`, the bounds of `fleet_safety`): the documents say that an
  open circuit survives a restart and only a reset closes it; a Supervisor that did not
  select the project, or read the file before the circuit opened, saves over it.
* `LedgerFailureNoticed` (`ProjectObserver`, `ObserverFairness`): version 2 reads the ledger
  in the flush of an approval without a handler (`project-delivery.ts:28`), so while the
  ledger stays unreadable it dies before it can notice.
* A Fleet whose configuration is gone (`WatchThrows` in `FleetObserver`, not a property): the
  handler that should report a Fleet without a projection (`fleet-observer.ts:53`) reads the
  name of the Fleet from that configuration (`:183`, `:260`) and throws, so `fleet.down` is
  never queued; every restart ends the same way.
* `HeldStaysBlocked` (`OperatorApproval`): a press of "hold" answers that the Job stays
  blocked and nothing was approved (`hermes-approval.ts:228`); a press of "approve" on the
  same card that is already past its own check still approves.

## 7. Plan

Done: every component that keeps state of its own has a module, and every safety
invariant and safety action property that a passing run checks is proved for all bounds.
What is left, in this order:

1. `JobLifecycle` for `Delivery` too (base refreshes and CI reworks as further ways back
   to `ready`), and `AttemptLifecycle` over `AgentTurn`, with what a runtime promises of
   the end of an operation added to it, so that the `kept` ticks of the one are the refusals
   of the other.
2. A composition of `StateStore` with two Jobs of equal revision (`json-store.ts:52`
   compares revisions only), and of the local branch with `git push` (`github-gh.ts:160`
   pushes the branch, not the recorded HEAD).
3. The second half of the Fleet's `TypeOK`, that a child is owned by the Supervisor that
   lists it: the link between `OwnersRun` and `Informed`.

## 8. Not modelled

* *Runtime preflight and contract*: checks without state of the Job; what they check is
  left out, that they may fail is `FailPreflight`.
* *Analyst and evidence*: what an Analyst thinks is any advice that the allowed actions
  admit, or none.
* *Attempt plans, context and prompts*: data that is prepared and bound by digest; the
  digests are identities here.
* *Telegram transport; diagnostics, canaries and the command line*: rendering, wording,
  live smoke tests and the parsing of arguments. They keep no state that a Controller, a
  Supervisor or an observer reads.
* Of modelled components: the heartbeat files of Controllers and the isolation checks of a
  Fleet's configuration; the evidence loop of `runDiagnosis`, legacy forms of
  reassessment, and the times of a provider's backoff; the diagnosis of provider
  failures; GitHub's limits on what it lists; the file operations of `prepareReviewer`: a
  death between them leaves files that the same Attempt refuses to write again
  (`git-cli.ts:635`), one more way to `BlocksReviewer`.
