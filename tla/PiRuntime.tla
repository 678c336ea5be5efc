----------------------------- MODULE PiRuntime -----------------------------
(***************************************************************************)
(* The Pi RPC adapter: the Controller (adapters/pi-rpc-runtime.ts), the    *)
(* runner it types into the pane (pi-rpc-runner.ts) and the runner's       *)
(* detached child, the agent (pi-rpc-sdk-entry.ts), talk through files of  *)
(* one spool directory and a pipe.  Each of the three may die at any time, *)
(* and a slow one is waited for only so long: a timeout is a choice.       *)
(***************************************************************************)
EXTENDS RuntimePort

CONSTANTS
    Runner,     \* runner processes that may be typed into the pane
    Nobody

ASSUME RunnerAssumption == Nobody \notin Runner

VARIABLES
    spool,      \* the receipts of the spool directory
    typed,      \* runners typed into the pane and not started
    run,        \* the runner processes
    child,      \* their children
    ctl         \* the Controller inside its operation

piVars == <<spool, typed, run, child, ctl>>

Events == {"settled", "violation", "error"}
Stages == {"none", "owner", "owned", "spawned", "handshake", "releasing", "await", "prompting", "running",
           "stopping", "stopped", "confirming", "gone"}
Receipts == {"ready", "accepted", "terminal", "terminated", "terminating", "acked"}

Receipt == [plan : BOOLEAN, owner : Runner \union {Nobody}, progress : {"absent", "null", "child"},
            ready : BOOLEAN, dispatch : BOOLEAN, accepted : BOOLEAN, terminate : BOOLEAN, terminating : BOOLEAN,
            terminal : {"none", "ok", "failed"}, clean : BOOLEAN, terminated : {"none", "ok", "unconfirmed"}]

NoProcess == [at |-> "none", how |-> "normal", expired |-> FALSE, asked |-> FALSE, heard |-> {}, unconfirmed |-> FALSE]
NoChild   == [life |-> "none", inbox |-> FALSE, agent |-> "fresh", said |-> {}]
Idle      == [at |-> "none", polled |-> FALSE, observe |-> FALSE, pids |-> {}, complete |-> FALSE]

Process == [at : Stages, how : {"normal", "predispatch", "failed"}, expired : BOOLEAN,
            asked : BOOLEAN, heard : SUBSET Events, unconfirmed : BOOLEAN]
Child == [life : {"none", "alive", "dead"}, inbox : BOOLEAN, agent : {"fresh", "working", "settled"},
          said : SUBSET Events]
Waiting == [at : {"none", "cleanup", "force", "kill", "check", "observe"} \union Receipts, polled : BOOLEAN,
            observe : BOOLEAN, pids : SUBSET {"runner", "child"}, complete : BOOLEAN]

PiTypeOK ==
    /\ spool \in Receipt /\ typed \subseteq Runner
    /\ run \in [Runner -> Process] /\ child \in [Runner -> Child] /\ ctl \in Waiting

PiInit ==
    /\ spool = [plan |-> FALSE, owner |-> Nobody, progress |-> "absent", ready |-> FALSE, dispatch |-> FALSE,
                accepted |-> FALSE, terminate |-> FALSE, terminating |-> FALSE, terminal |-> "none",
                clean |-> FALSE, terminated |-> "none"]
    /\ typed = {} /\ run = [r \in Runner |-> NoProcess] /\ child = [r \in Runner |-> NoChild] /\ ctl = Idle

-----------------------------------------------------------------------------
(* The runner.                                                              *)

Running(r) == run[r].at \notin {"none", "gone"}
Spawned(r) == child[r].life # "none"
Prompted(r) == child[r].agent # "fresh" \/ child[r].inbox

Step(r, stage) == run' = [run EXCEPT ![r].at = stage]
ByRunner       == UNCHANGED <<portVars, typed, ctl>>

\* Mutant: owner.json is written over.
TakesOwnership_Overwrites(r) ==
    /\ r \in typed /\ typed' = typed \ {r} /\ open
    /\ spool' = [spool EXCEPT !.owner = r] /\ Step(r, "owner")
    /\ UNCHANGED <<portVars, ctl, child>>

\* main: the shell starts what was typed; owner.json is linked once and for all.  What
\* throws before the first progress ends the process without a receipt (Dies).
TakesOwnership(r) ==
    /\ r \in typed /\ typed' = typed \ {r} /\ open
    /\ IF spool.owner = Nobody
         THEN spool' = [spool EXCEPT !.owner = r] /\ Step(r, "owner")
         ELSE UNCHANGED spool /\ Step(r, "gone")
    /\ UNCHANGED <<portVars, ctl, child>>

\* The first runtime-progress.json, without a child.
RecordsItself(r) ==
    /\ run[r].at = "owner" /\ Step(r, "owned")
    /\ spool' = [spool EXCEPT !.progress = "null"]
    /\ UNCHANGED child /\ ByRunner

\* The child is a process group of its own, with the credential lease of its parent.
Spawns(r) ==
    /\ run[r].at = "owned" /\ Step(r, "spawned")
    /\ child' = [child EXCEPT ![r].life = "alive"]
    /\ UNCHANGED spool /\ ByRunner

RecordsChild(r) ==
    /\ run[r].at = "spawned" /\ Step(r, "handshake")
    /\ spool' = [spool EXCEPT !.progress = "child"]
    /\ UNCHANGED child /\ ByRunner

\* get_state .. set_auto_compaction: a fresh, idle session with the skills of the plan.
Handshakes(r) ==
    /\ run[r].at = "handshake" /\ child[r].life = "alive" /\ Step(r, "releasing")
    /\ spool' = [spool EXCEPT !.ready = TRUE]
    /\ UNCHANGED child /\ ByRunner

ReleasesLease(r) == run[r].at = "releasing" /\ Step(r, "await") /\ UNCHANGED <<spool, child>> /\ ByRunner

\* waitForDispatch: a request to terminate comes before a deadline, and that before a
\* dispatch; an expired deadline is a failure (Fails).
AwaitsDispatch(r) ==
    /\ run[r].at = "await"
    /\ IF spool.terminate
         THEN /\ run' = [run EXCEPT ![r] = [@ EXCEPT !.at = "stopping", !.how = "predispatch"]]
              /\ spool' = [spool EXCEPT !.terminating = TRUE] /\ UNCHANGED child
         ELSE /\ spool.dispatch /\ ~late /\ Step(r, "prompting")
              /\ child' = [child EXCEPT ![r].inbox = TRUE] /\ UNCHANGED spool
    /\ ByRunner

Expires(r) ==
    /\ run[r].at = "await" /\ ~spool.terminate /\ late
    /\ run' = [run EXCEPT ![r] = [@ EXCEPT !.at = "stopping", !.how = "failed", !.expired = TRUE]]
    /\ spool' = [spool EXCEPT !.terminate = TRUE, !.terminating = TRUE]
    /\ UNCHANGED child /\ ByRunner

Accepts(r) ==
    /\ run[r].at = "prompting" /\ child[r].agent # "fresh" /\ Step(r, "running")
    /\ spool' = [spool EXCEPT !.accepted = TRUE]
    /\ UNCHANGED child /\ ByRunner

\* persistEvent: events arrive over the pipe, also after the runner began to stop.
Hears(r) ==
    /\ run[r].at \in {"handshake", "releasing", "await", "prompting", "running", "stopping"}
    /\ \E e \in child[r].said \ run[r].heard : run' = [run EXCEPT ![r].heard = @ \union {e}]
    /\ UNCHANGED <<spool, child>> /\ ByRunner

\* The loop of the agent run: settled, and no deadline passed.
Settles(r) ==
    /\ run[r].at = "running" /\ "settled" \in run[r].heard /\ ~run[r].expired /\ ~late
    /\ Step(r, "stopping")
    /\ UNCHANGED <<spool, child>> /\ ByRunner

\* expiredDeadline: the total deadline, or (at any time) the one without progress.
Stalls(r) ==
    /\ run[r].at = "running" /\ ~run[r].expired /\ run' = [run EXCEPT ![r].expired = TRUE]
    /\ spool' = [spool EXCEPT !.terminate = TRUE]
    /\ UNCHANGED child /\ ByRunner

\* A request to terminate, the runner's own included, or a policy violation: abort.
Interrupts(r) ==
    /\ run[r].at = "running" /\ (spool.terminate \/ "violation" \in run[r].heard)
    /\ run' = [run EXCEPT ![r] = [@ EXCEPT !.at = "stopping", !.asked = spool.terminate]]
    /\ spool' = [spool EXCEPT !.terminate = TRUE, !.terminating = TRUE]
    /\ UNCHANGED child /\ ByRunner

\* Mutant: the child may still run, or its output may not be read.
ChildGone_Assumed(r) == Spawned(r)

\* stopChild: exit of the whole process group, and the end of its output.
ChildGone(r) == child[r].life = "dead" /\ child[r].said = run[r].heard

Stops(r) ==
    /\ run[r].at = "stopping" /\ ChildGone(r) /\ Step(r, "stopped")
    /\ UNCHANGED <<spool, child>> /\ ByRunner

\* The escalation of signals ran out of time; the catch block tries once more.
StopFails(r) ==
    /\ run[r].at = "stopping" /\ ~ChildGone(r)
    /\ run' = [run EXCEPT ![r] = IF @.how = "failed" THEN [@ EXCEPT !.at = "stopped", !.unconfirmed = TRUE]
                                                     ELSE [@ EXCEPT !.how = "failed"]]
    /\ spool' = [spool EXCEPT !.terminating = @ \/ (spool.terminate /\ run[r].how # "failed")]
    /\ UNCHANGED child /\ ByRunner

\* Any other exception: a command that times out, output that is no JSON, a child
\* that exits, a credential that changed.  A child without a client is killed blindly.
Fails(r) ==
    /\ run[r].at \in {"owned", "spawned", "handshake", "releasing", "await", "prompting", "running", "stopped"}
    /\ run[r].how # "failed"
    /\ run' = [run EXCEPT ![r] = [@ EXCEPT
                !.how = "failed", !.unconfirmed = run[r].at = "spawned",
                !.at = IF run[r].at \in {"owned", "spawned", "stopped"} THEN "stopped" ELSE "stopping"]]
    /\ LET asked == spool.terminate \/ (late /\ run[r].at \in {"handshake", "prompting"})
       IN  spool' = [spool EXCEPT !.terminate = asked, !.terminating = @ \/ asked]
    /\ UNCHANGED child /\ ByRunner

\* terminal.json: the outcome, and whether the agent left anything behind.
Reports(r) ==
    LET ok == run[r].how = "normal" /\ ~run[r].expired /\ ~run[r].asked /\ run[r].heard = {"settled"}
    IN  /\ run[r].at = "stopped" /\ Step(r, "confirming")
        /\ spool' = [spool EXCEPT !.terminal = IF ok THEN "ok" ELSE "failed", !.clean = result = 0,
                                  !.progress = IF Spawned(r) THEN "child" ELSE "null"]
        /\ UNCHANGED child /\ ByRunner

Confirms(r) ==
    /\ run[r].at = "confirming" /\ Step(r, "gone")
    /\ spool' = [spool EXCEPT !.terminated = IF run[r].unconfirmed THEN "unconfirmed" ELSE "ok"]
    /\ UNCHANGED child /\ ByRunner

Dies(r) == Running(r) /\ Step(r, "gone") /\ UNCHANGED <<spool, child>> /\ ByRunner

-----------------------------------------------------------------------------
(* The child.                                                               *)

ByChild == UNCHANGED <<adapter, phase, op, tabs, open, late, taken, spool, typed, run, ctl>>

\* The prompt was written into the child's input.
TakesPrompt(r) ==
    /\ child[r].life = "alive" /\ child[r].inbox
    /\ child' = [child EXCEPT ![r] = [@ EXCEPT !.inbox = FALSE, !.agent = "working"]]
    /\ ByChild /\ UNCHANGED result

\* Tools run while the agent works; what they started may outlive its last turn.
Works(r) ==
    /\ child[r].life = "alive" /\ child[r].agent # "fresh"
    /\ WritesResult
    /\ ByChild /\ UNCHANGED child

\* An agent settles, fails, or does what its plan forbids: a second start, an
\* automatic retry, a dialog, a compaction out of order, an unknown control event.
Says(r) ==
    /\ child[r].life = "alive"
    /\ \E e \in Events \ child[r].said :
        /\ e # "violation" => child[r].agent = "working"
        /\ child' = [child EXCEPT ![r] = [@ EXCEPT !.said = child[r].said \union {e},
                                               !.agent = IF e = "settled" THEN e ELSE child[r].agent]]
    /\ ByChild /\ UNCHANGED result

Exits(r) ==
    /\ child[r].life = "alive" /\ child' = [child EXCEPT ![r].life = "dead"]
    /\ ByChild /\ UNCHANGED result

-----------------------------------------------------------------------------
(* The Controller.                                                          *)

ByController == UNCHANGED <<adapter, tabs, late, result, child>>

\* The operation fails, or hands over what it found; the pane stays.
Gives(outcome) == outcome /\ ctl' = Idle /\ UNCHANGED <<open, typed, run>>

Awaits(receipt) == ctl' = [ctl EXCEPT !.at = receipt, !.polled = FALSE]
Stays           == UNCHANGED <<phase, op, taken, open, typed, run>>

\* closePane hangs up the shell and what it runs, a runner but not its detached child.
ClosesPane ==
    /\ open' = FALSE /\ typed' = {}
    /\ run' = [r \in Runner |-> IF Running(r) THEN [run[r] EXCEPT !.at = "gone"] ELSE run[r]]

\* The end of an operation that gave the Attempt up; a pane that cannot be closed is a
\* failure too.
GivesUp == \/ ClosesPane /\ Failed /\ ctl' = Idle
           \/ Gives(Failed)

\* cleanupRuntime returns: terminate succeeds if it is confirmed, wait reads on.
CleansUp(confirmed) ==
    \/ /\ confirmed /\ ClosesPane
       /\ \/ op = "end" /\ Succeeded /\ ctl' = Idle
          \/ op = "wait" /\ ctl.observe /\ Awaits("observe") /\ UNCHANGED <<phase, op, taken>>
    \/ ~(confirmed /\ (op = "end" \/ ctl.observe)) /\ ClosesPane /\ Failed /\ ctl' = Idle
    \/ Gives(Failed)

\* startAgent: what is there already is used, whoever started it.
StartAgent ==
    /\ op = "start" /\ ctl.at = "none"
    /\ \/ late /\ spool.owner # Nobody /\ Awaits("cleanup") /\ Stays /\ UNCHANGED spool
       \/ late /\ spool.owner = Nobody /\ GivesUp /\ UNCHANGED spool
       \/ /\ ~late /\ spool' = [spool EXCEPT !.plan = TRUE]
          /\ \/ spool.ready /\ Gives(Succeeded)
             \/ ~spool.ready /\ spool.terminal # "none" /\ Awaits("cleanup") /\ Stays
             \/ ~spool.ready /\ spool.terminal = "none" /\ spool.owner # Nobody /\ Awaits("ready") /\ Stays
    /\ ByController

\* runInPane: the command is in the pane even when the call fails.
TypesRunner ==
    /\ op = "start" /\ ctl.at = "none" /\ ~late
    /\ ~spool.ready /\ spool.terminal = "none" /\ spool.owner = Nobody
    /\ spool' = [spool EXCEPT !.plan = TRUE]
    /\ \/ /\ open /\ \E r \in Runner \ typed : run[r].at = "none" /\ typed' = typed \union {r}
          /\ \/ Awaits("ready") /\ UNCHANGED <<phase, op, taken>>
             \/ Failed /\ ctl' = Idle
          /\ UNCHANGED <<open, run>>
       \/ Gives(Failed)
    /\ ByController

\* prompt: dispatch.json is linked once; what follows is only observed.
Dispatches ==
    /\ op = "prompt" /\ ctl.at = "none"
    /\ IF late THEN Awaits("cleanup") /\ UNCHANGED spool
               ELSE Awaits("accepted") /\ spool' = [spool EXCEPT !.dispatch = TRUE]
    /\ Stays /\ ByController

WaitsForTerminal ==
    /\ op = "wait" /\ ctl.at = "none"
    /\ Awaits(IF spool.dispatch THEN "terminal" ELSE "cleanup")
    /\ Stays /\ ByController /\ UNCHANGED spool

\* terminate: without plan.json there is nothing to identify the runtime by.
Terminates ==
    /\ op = "end" /\ ctl.at = "none"
    /\ \/ spool.plan /\ Awaits("cleanup") /\ Stays
       \/ ~spool.plan /\ Gives(Failed)
    /\ ByController /\ UNCHANGED spool

Written(receipt) ==
    CASE receipt = "ready" -> spool.ready [] receipt = "accepted" -> spool.accepted
      [] receipt = "terminating" -> spool.terminating [] receipt = "terminal" -> spool.terminal # "none"
      [] receipt \in {"terminated", "acked"} -> spool.terminated # "none"

\* waitForReceipt reads the receipt, and takes a failed terminal for one that is due
\* before it.
Answers(receipt) ==
    Written(receipt) \/ (receipt \in {"ready", "accepted", "terminating"} /\ spool.terminal = "failed")

Polls ==
    /\ ctl.at \in Receipts /\ ~ctl.polled
    /\ IF ~Answers(ctl.at)
         THEN ctl' = [ctl EXCEPT !.polled = TRUE] /\ Stays
         ELSE CASE ctl.at \in {"ready", "accepted"} ->
                     IF Written(ctl.at) THEN Gives(Succeeded) ELSE Awaits("cleanup") /\ Stays
                [] ctl.at = "terminal" -> Awaits("terminated") /\ Stays
                [] ctl.at = "terminated" -> Awaits("observe") /\ Stays
                [] ctl.at = "terminating" -> Awaits("acked") /\ Stays
                [] ctl.at = "acked" -> CleansUp(spool.terminated = "ok")
    /\ ByController /\ UNCHANGED spool

\* ... and only then looks whether the runner is alive.
LooksAtRunner ==
    /\ ctl.at \in Receipts /\ ctl.polled
    /\ \/ (spool.owner # Nobody => Running(spool.owner)) /\ Awaits(ctl.at)
       \/ Awaits(IF ctl.at \in {"terminating", "acked"} THEN "force" ELSE "cleanup")
    /\ Stays /\ ByController /\ UNCHANGED spool

\* cleanupRuntime: a runtime that is over is over; or a request, which is written once.
AsksToTerminate ==
    /\ ctl.at = "cleanup"
    /\ IF spool.terminated # "none"
         THEN UNCHANGED spool /\ CleansUp(spool.terminated = "ok")
         ELSE /\ spool' = [spool EXCEPT !.terminate = TRUE] /\ Stays
              /\ ctl' = [ctl EXCEPT !.at = IF spool.owner = Nobody THEN "force" ELSE "terminating", !.polled = FALSE,
                                    !.observe = op = "wait" /\ spool.terminal # "none"]
    /\ ByController

FallbackTerminated == [spool EXCEPT !.terminated = IF @ = "none" THEN "ok" ELSE @]

\* forceRuntimeCleanup: the process ids are read, and believed from then on.
Identifies ==
    LET pids == {"runner" : o \in {spool.owner} \ {Nobody}}
                \union {"child" : c \in {t \in {TRUE} : spool.progress = "child" \/ spool.ready}}
        known == spool.owner = Nobody \/ spool.progress # "absent" \/ spool.ready
    IN  /\ ctl.at = "force"
        /\ IF pids # {}
             THEN /\ ctl' = [ctl EXCEPT !.at = "kill", !.pids = pids, !.complete = known]
                  /\ Stays /\ UNCHANGED spool
             ELSE /\ spool' = (IF known THEN FallbackTerminated ELSE spool)
                  /\ CleansUp(known)
        /\ ByController

\* SIGTERM ends a runner; a process group may need SIGKILL, and survive that for a while.
Kills ==
    /\ ctl.at = "kill" /\ ctl' = [ctl EXCEPT !.at = "check"]
    /\ run' = [run EXCEPT ![spool.owner].at = "gone"]
    /\ child' \in {child} \union {[child EXCEPT ![spool.owner].life = "dead"] : c \in ctl.pids \intersect {"child"}}
    /\ UNCHANGED <<portVars, spool, typed>>

\* ps fails, or does not show the command of this runner or child: nobody is signalled.
RefusesToKill ==
    /\ ctl.at = "kill" /\ CleansUp(FALSE)
    /\ ByController /\ UNCHANGED spool

ExitConfirmed(o) == ctl.complete /\ ("child" \in ctl.pids => child[o].life # "alive") /\ ~Running(o)

ChecksExit ==
    /\ ctl.at = "check"
    /\ spool' = (IF ExitConfirmed(spool.owner) THEN FallbackTerminated ELSE spool)
    /\ CleansUp(ExitConfirmed(spool.owner))
    /\ ByController

\* wait: what the receipts say, and the result file last.
Observes ==
    /\ ctl.at = "observe"
    /\ IF spool.terminated = "ok" /\ spool.terminal = "ok" /\ result > 0
         THEN Gives(Succeeded) ELSE GivesUp
    /\ ByController /\ UNCHANGED spool

ControllerDies ==
    /\ op # "none" /\ op' = "none" /\ taken' = 0 /\ ctl' = Idle
    /\ UNCHANGED <<adapter, phase, tabs, open, late, result, spool, typed, run, child>>

PiController ==
    \/ StartAgent \/ TypesRunner \/ Dispatches \/ WaitsForTerminal \/ Terminates \/ Polls \/ LooksAtRunner
    \/ AsksToTerminate \/ Identifies \/ Kills \/ RefusesToKill \/ ChecksExit \/ Observes

PiRunner(r) ==
    \/ TakesOwnership(r) \/ RecordsItself(r) \/ Spawns(r) \/ RecordsChild(r) \/ Handshakes(r) \/ ReleasesLease(r)
    \/ AwaitsDispatch(r) \/ Expires(r) \/ Accepts(r) \/ Hears(r) \/ Settles(r) \/ Stalls(r) \/ Interrupts(r) \/ Stops(r)
    \/ StopFails(r) \/ Fails(r) \/ Reports(r) \/ Confirms(r)

PiProcesses == \E r \in Runner : \/ PiRunner(r) \/ Dies(r)
                               \/ TakesPrompt(r) \/ Works(r) \/ Says(r) \/ Exits(r)

-----------------------------------------------------------------------------

\* pi-rpc-runner.ts, the exclusive owner.json and dispatch.json: at most one agent is
\* ever prompted, although the runner may have been typed into the pane twice, by two
\* Controllers.
PromptedOnce == Cardinality({r \in Runner : Prompted(r)}) =< 1

\* A result that wait handed out is final: its agent settled, did nothing its plan
\* forbids, and it and its process group are gone, so nothing changes it any more.
ResultIsFinal ==
    adapter = "pi-rpc" /\ taken # 0 =>
        /\ taken = result
        /\ \A r \in Runner : child[r].life # "alive"
        /\ child[spool.owner].said = {"settled"}

\* A failure that is reported as having left nothing behind, with its exit confirmed,
\* stays so: policy retries it without asking anybody (policy.ts).  It is not promised
\* when the runner failed to stop its child (cleanupFailureCode) and died before it
\* could say so in terminated.json.
CleanFailureStaysClean ==
    spool.terminal = "failed" /\ spool.clean /\ spool.terminated = "ok" /\ ~run[spool.owner].unconfirmed
        => result = 0

-----------------------------------------------------------------------------
(* Why they hold.                                                           *)

\* Only the runner whose owner.json it is ever has a child, and only one it has spawned
\* and recorded is prompted.
OwnerInv ==
    /\ \A r \in Runner : Running(r) \/ Spawned(r) => spool.owner = r
    /\ \A r \in typed : run[r].at = "none"
    /\ spool.owner # Nobody => run[spool.owner].at # "none"
    /\ \A r \in Runner :
        /\ run[r].at \in {"none", "owner", "owned"} => ~Spawned(r)
        /\ run[r].at \in {"spawned", "handshake", "releasing", "await", "prompting", "running"} => Spawned(r)
        /\ ~Spawned(r) => child[r] = NoChild
        /\ run[r].at \in {"handshake", "releasing", "await", "prompting", "running"} \/ Prompted(r)
             => spool.progress = "child"

\* A runner that goes without a complaint leaves no child behind that is alive, or whose
\* last words it has not heard.
ChildInv ==
    \A r \in Runner :
        /\ run[r].at = "stopped" /\ run[r].how # "failed" => ChildGone(r)
        /\ run[r].at \in {"stopped", "confirming"} /\ ~run[r].unconfirmed => child[r].life # "alive"

\* What terminal.json says stays true: its runner has no step left that could change it.
TerminalInv ==
    spool.terminal # "none" =>
        /\ adapter = "pi-rpc"
        /\ spool.owner # Nobody /\ run[spool.owner].at \in {"confirming", "gone"}
        /\ ~run[spool.owner].unconfirmed => child[spool.owner].life # "alive"
        /\ ~run[spool.owner].unconfirmed /\ spool.terminal = "failed" /\ spool.clean => result = 0
        /\ spool.terminal = "ok" => child[spool.owner].life = "dead" /\ child[spool.owner].said = {"settled"}

\* The receipt an operation waits for is its own; a cleanup has asked the runner to
\* terminate, and if it kills, then the child that was prompted as well.
OperationInv ==
    /\ ctl.at # "none" => adapter = "pi-rpc" /\ op \in {"start", "prompt", "wait", "end"}
    /\ ctl.at = "ready" => op = "start"
    /\ ctl.at = "accepted" => op = "prompt"
    /\ ctl.at \in {"terminal", "terminated", "observe"} => op = "wait"
    /\ ctl.at \in {"terminating", "acked", "force", "kill", "check"} => spool.terminate
    /\ ctl.at \in {"kill", "check"} => \A r \in Runner : Prompted(r) => "child" \in ctl.pids

\* No agent is at work, and none will be: whoever still runs was asked to terminate.
Quiet ==
    /\ \A r \in Runner : child[r].life = "alive" => ~Prompted(r)
    /\ spool.terminate \/ (spool.owner # Nobody /\ ~Running(spool.owner))

PiInv ==
    /\ OwnerInv /\ ChildInv /\ TerminalInv /\ OperationInv
    /\ adapter # "pi-rpc" => spool.owner = Nobody
    /\ spool.terminated = "ok" => Quiet
    /\ adapter = "pi-rpc" /\ taken # 0 => taken = result /\ spool.terminal = "ok"
    /\ phase = "prepared" => typed = {} /\ spool.owner = Nobody
    /\ adapter = "pi-rpc" /\ phase = "closed" =>
           /\ typed = {}
           /\ \A r \in Runner : ~Running(r) /\ (child[r].life = "alive" => ~Prompted(r))
=============================================================================
