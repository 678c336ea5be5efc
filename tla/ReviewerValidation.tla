-------------------------- MODULE ReviewerValidation --------------------------
(***************************************************************************)
(* The validation of one Reviewer Attempt: controller/reviewer-validation, *)
(* GitCliAdapter.runReviewerValidation and the process of                  *)
(* reviewer-validation-runner.  The command is a process group of its own  *)
(* that outlives the Controller; plan and receipt are files published once.*)
(***************************************************************************)
EXTENDS Naturals

VARIABLES
    worktree,   \* the commit the worktree is at
    plan,       \* validation-plan.json: the commit that was exported, or "none"
    receipt,    \* validation-receipt.json: its status
    attempt,    \* what the Job records of the Attempt
    command,    \* the process group of the command
    tick        \* what the Controller is at, in memory

validationVars == <<worktree, plan, receipt, attempt, command, tick>>

Statuses == {"passed", "failed-checks", "infrastructure-error"}
NoTick == [stage |-> "none", exit |-> "none", timedOut |-> FALSE, stopped |-> FALSE, broken |-> FALSE]

Stages == {"none", "exported", "planned", "running", "closed", "swept", "published"}
Exit == {"passed", "failed-checks"}

ValidationTypeOK ==
    /\ worktree \in {"reviewed", "other"} /\ plan \in {"none", "reviewed", "other"}
    /\ receipt \in Statuses \union {"none"}
    /\ attempt \in Statuses \union {"prepared", "integrity_violation", "validation_infrastructure"}
    /\ command \in [self : Exit \union {"none", "running", "killed"}, rest : BOOLEAN, told : BOOLEAN,
                    late : BOOLEAN, honest : BOOLEAN, runs : {0, 1}]
    /\ tick \in [stage : Stages, exit : Exit \union {"none", "killed"}, timedOut : BOOLEAN,
                 stopped : BOOLEAN, broken : BOOLEAN]

ValidationInit ==
    /\ worktree = "reviewed" /\ plan = "none" /\ receipt = "none" /\ attempt = "prepared"
    /\ command = [self |-> "none", rest |-> FALSE, told |-> FALSE, late |-> FALSE, honest |-> FALSE, runs |-> 0]
    /\ tick = NoTick

-----------------------------------------------------------------------------
(* The command, and the world around it.                                    *)

\* Somebody commits in the worktree, for good; it is no Attempt's.
HeadDrifts ==
    worktree = "reviewed" /\ worktree' = "other" /\ UNCHANGED <<plan, receipt, attempt, command, tick>>

Alive == command.self = "running"

Forks == Alive /\ ~command.rest /\ command' = [command EXCEPT !.rest = TRUE]

\* It ends by itself; after SIGTERM it may still choose its exit code.
Exits ==
    /\ Alive
    /\ \E exit \in {"passed", "failed-checks"} :
        command' = [command EXCEPT !.self = exit, !.honest = ~command.told /\ ~command.late]

\* By the SIGTERM, or the operating system.
IsKilled == Alive /\ command' = [command EXCEPT !.self = "killed"]
RestEnds == command.rest /\ command' = [command EXCEPT !.rest = FALSE]

\* The deadline of the validation passes.
DeadlinePasses == Alive /\ ~command.late /\ command' = [command EXCEPT !.late = TRUE]

CommandActs ==
    (Forks \/ Exits \/ IsKilled \/ RestEnds \/ DeadlinePasses) /\ UNCHANGED <<worktree, plan, receipt, attempt, tick>>

-----------------------------------------------------------------------------
(* The tick of the Controller.                                              *)

At(stage) == tick.stage = stage
Goes(stage) == tick' = [tick EXCEPT !.stage = stage]
Ends == tick' = NoTick
BlocksWith(class) == attempt' = class /\ Ends

\* verifyReviewerPreflight, and the check of a receipt that is there: the Attempt is bound
\* to what it says.
Concludes ==
    /\ receipt # "none"
    /\ BlocksWith(IF receipt = "infrastructure-error" THEN "validation_infrastructure"
                  ELSE IF worktree # "reviewed" THEN "integrity_violation"
                  ELSE receipt)

\* ensureReviewerValidation looks at the worktree first.
Begins == At("none") /\ attempt = "prepared" /\ worktree = "reviewed"

FindsDrift ==
    At("none") /\ attempt = "prepared" /\ worktree # "reviewed" /\ BlocksWith("integrity_violation")
    /\ UNCHANGED <<worktree, plan, receipt, command>>

\* Nothing was published yet; the export may see the worktree move.
ExportsSource == Begins /\ plan = "none" /\ Goes("exported") /\ UNCHANGED <<worktree, plan, receipt, attempt, command>>

PublishesPlan ==
    At("exported") /\ plan' = worktree /\ Goes("planned") /\ UNCHANGED <<worktree, receipt, attempt, command>>

\* runReviewerValidation: a receipt is used again; a plan without one is an interruption.
FindsReceipt == Begins /\ Concludes /\ UNCHANGED <<worktree, plan, receipt, command>>

FindsInterruption ==
    /\ Begins /\ plan # "none" /\ receipt = "none"
    /\ BlocksWith("validation_infrastructure") /\ UNCHANGED <<worktree, plan, receipt, command>>

\* The environment, the executables, Docker or the spawn itself is not as it should be.
CannotStart ==
    At("planned") /\ tick' = [tick EXCEPT !.stage = "swept", !.broken = TRUE]
    /\ UNCHANGED <<worktree, plan, receipt, attempt, command>>

SpawnsCommand ==
    /\ At("planned") /\ Goes("running")
    /\ command' = [command EXCEPT !.self = "running", !.runs = @ + 1]
    /\ UNCHANGED <<worktree, plan, receipt, attempt>>

\* stop: at the deadline, at a signal to the Controller, or when the heartbeat cannot be
\* written; the first reason stands.
Stops ==
    /\ At("running") /\ ~tick.timedOut /\ ~tick.stopped
    /\ \E reason \in {"deadline", "signal", "heartbeat"} :
        /\ reason = "deadline" => command.late
        /\ tick' = [tick EXCEPT !.timedOut = (reason = "deadline"), !.stopped = (reason # "deadline"),
                                !.broken = @ \/ reason = "heartbeat"]
    /\ command' = [command EXCEPT !.told = TRUE] /\ UNCHANGED <<worktree, plan, receipt, attempt>>

\* The output cannot be captured: SIGKILL at once.
CaptureFails ==
    /\ At("running") /\ ~tick.broken /\ tick' = [tick EXCEPT !.broken = TRUE]
    /\ command' = [command EXCEPT !.self = IF Alive THEN "killed" ELSE @]
    /\ UNCHANGED <<worktree, plan, receipt, attempt>>

\* An exit that is noticed after the deadline is late, though the timer did not fire yet.
PastDeadline == tick.timedOut \/ command.late

\* finish, from `close`: the exit of the command is known.
Closes ==
    /\ At("running") /\ command.self \in {"passed", "failed-checks", "killed"}
    /\ tick' = [tick EXCEPT !.stage = "closed", !.exit = command.self, !.timedOut = PastDeadline]
    /\ UNCHANGED <<worktree, plan, receipt, attempt, command>>

\* finish, when SIGKILL and the confirmation timer brought no exit.
GivesUpOnExit ==
    /\ At("running") /\ command.told /\ Alive
    /\ tick' = [tick EXCEPT !.stage = "closed", !.broken = TRUE]
    /\ UNCHANGED <<worktree, plan, receipt, attempt, command>>

\* stopRemainingProcessGroup: the rest of the group goes, or is there after SIGKILL too.
Sweeps ==
    \/ /\ command' = [command EXCEPT !.rest = FALSE, !.self = IF Alive THEN "killed" ELSE @]
       /\ Goes("swept")
    \/ /\ Alive \/ command.rest
       /\ tick' = [tick EXCEPT !.stage = "swept", !.broken = TRUE] /\ UNCHANGED command

SweepsGroup == At("closed") /\ Sweeps /\ UNCHANGED <<worktree, plan, receipt, attempt>>

\* The last heartbeat or the terminated receipt cannot be written.
ReceiptsFail ==
    At("swept") /\ ~tick.broken /\ tick' = [tick EXCEPT !.broken = TRUE]
    /\ UNCHANGED <<worktree, plan, receipt, attempt, command>>

\* Mutant: a command that was interrupted and still exited by itself counts.
Deterministic_Interrupted == tick.exit \in {"passed", "failed-checks"} /\ ~tick.timedOut /\ ~tick.broken

\* No signal, no timeout, no error.
Deterministic == tick.exit \in {"passed", "failed-checks"} /\ ~tick.timedOut /\ ~tick.stopped /\ ~tick.broken

PublishesReceipt ==
    /\ At("swept") /\ receipt' = (IF Deterministic THEN tick.exit ELSE "infrastructure-error")
    /\ Goes("published") /\ UNCHANGED <<worktree, plan, attempt, command>>

\* The save of the Attempt with its binding.
Binds == At("published") /\ Concludes /\ UNCHANGED <<worktree, plan, receipt, command>>

\* A file cannot be written: the Job is blocked without a receipt.
PublishFails ==
    /\ At("exported") \/ At("swept")
    /\ BlocksWith("validation_infrastructure") /\ UNCHANGED <<worktree, plan, receipt, command>>

ControllerCrashes == ~At("none") /\ Ends /\ UNCHANGED <<worktree, plan, receipt, attempt, command>>

ValidationNext ==
    \/ HeadDrifts \/ CommandActs
    \/ FindsDrift \/ ExportsSource \/ PublishesPlan \/ FindsReceipt \/ FindsInterruption \/ CannotStart \/ SpawnsCommand \/ Stops
    \/ CaptureFails \/ Closes \/ GivesUpOnExit \/ SweepsGroup \/ ReceiptsFail \/ PublishesReceipt \/ Binds
    \/ PublishFails \/ ControllerCrashes

-----------------------------------------------------------------------------

\* A verdict the Reviewer is started with is the exit the command chose by itself, in time,
\* of the commit under review, in its only run, with nothing of its group left behind;
\* whatever signals, late timers, failed writes and crashes lie between ("a normal non-zero
\* exit is failed-checks", everything else is infrastructure).
VerdictIsHonest ==
    attempt \in {"passed", "failed-checks"} =>
        /\ command.self = attempt /\ command.honest /\ ~command.rest /\ command.runs = 1
        /\ plan = "reviewed" /\ receipt = attempt
-----------------------------------------------------------------------------
(* Why it holds: the inductive invariant.                                   *)

\* The plan is published before the command runs, and the receipt after it, once.
ValidationOrder ==
    /\ attempt # "prepared" => At("none")
    /\ At("exported") => plan = "none"
    /\ plan = "none" => command.runs = 0 /\ receipt = "none" /\ tick.stage \in {"none", "exported"}
    /\ worktree = "reviewed" => plan \in {"none", "reviewed"}
    /\ receipt # "none" => tick.stage \in {"none", "published"}
    /\ tick.stage \in {"none", "exported", "planned"} =>
         tick.exit = "none" /\ ~tick.timedOut /\ ~tick.stopped /\ ~tick.broken
    /\ At("planned") => command.runs = 0
    /\ At("published") => receipt # "none"

\* What the Controller knows of the command while it watches it.
ValidationWatched ==
    /\ command.runs = 0 => command.self = "none" /\ ~command.rest /\ ~command.told
    /\ tick.stage \in {"running", "closed"} => command.runs = 1
    /\ command.self \in Exit => (~command.told /\ ~command.late => command.honest)
    /\ At("running") => tick.exit = "none" /\ (command.told => tick.timedOut \/ tick.stopped)
    /\ At("closed") /\ tick.exit \in Exit =>
         /\ command.self = tick.exit /\ (command.late => tick.timedOut)
         /\ command.told => tick.timedOut \/ tick.stopped

\* The command has ended, honestly, with nothing left of its group.
EndedWith(exit) == command.self = exit /\ command.honest /\ ~command.rest /\ command.runs = 1

ValidationConcluded ==
    /\ At("swept") /\ Deterministic => EndedWith(tick.exit)
    /\ receipt \in Exit => EndedWith(receipt)
    /\ attempt \in Exit => receipt = attempt /\ plan = "reviewed"

ValidationInv == ValidationTypeOK /\ ValidationOrder /\ ValidationWatched /\ ValidationConcluded
=============================================================================
