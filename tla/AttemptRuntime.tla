--------------------------- MODULE AttemptRuntime ---------------------------
(***************************************************************************)
(* One Attempt under the runtime its execution snapshot names: the driver  *)
(* sees the same operations, the machine below them is the Pi RPC runner   *)
(* or the Herdr server.                                                    *)
(***************************************************************************)
EXTENDS PiRuntime, HerdrRuntime

vars == <<portVars, piVars, herdrVars>>

Init == PortInit /\ PiInit /\ HerdrInit

PortNext ==
    /\ \/ Begin \/ PaneTooLate \/ FindPane \/ CreatePane \/ Retire \/ Deadline
    /\ UNCHANGED <<piVars, herdrVars>>

\* What the Controller does, and what the processes below it do.
Acts ==
    \/ adapter = "pi-rpc" /\ PiController /\ UNCHANGED herdrVars
    \/ adapter = "herdr-pi-cli" /\ HerdrController /\ UNCHANGED piVars

Runs ==
    \/ adapter = "pi-rpc" /\ PiProcesses /\ UNCHANGED herdrVars
    \/ adapter = "herdr-pi-cli" /\ HerdrAgent /\ UNCHANGED piVars

Crashes ==
    \/ adapter = "pi-rpc" /\ ControllerDies /\ UNCHANGED herdrVars
    \/ adapter = "herdr-pi-cli" /\ HerdrControllerDies /\ UNCHANGED piVars

Next == PortNext \/ Acts \/ Runs \/ Crashes

\* One Controller that goes on ticking, and whose waits end.  A process that can be
\* killed is killed in the end, ps names it to the one who has to, and a pane that can be
\* closed is closed.
Fairness ==
    /\ WF_vars(Begin /\ UNCHANGED <<piVars, herdrVars>>)
    /\ WF_vars(Acts)
    /\ WF_vars(Runs /\ (\A r \in Runner : ~Running(r)' /\ child'[r].life # "alive") /\ agent' \in {"none", "gone"})
    /\ SF_vars(adapter = "pi-rpc" /\ LooksAtRunner /\ ctl'.at # ctl.at /\ UNCHANGED herdrVars)
    /\ SF_vars(adapter = "pi-rpc" /\ Kills /\ UNCHANGED herdrVars)
    /\ SF_vars(Acts /\ op = "end" /\ open' = FALSE)
    /\ SF_vars(Acts /\ phase' = "closed")

Spec     == Init /\ [][Next]_vars
FairSpec == Init /\ [][PortNext \/ Acts \/ Runs]_vars /\ Fairness

-----------------------------------------------------------------------------

TypeOK == PortTypeOK /\ PiTypeOK /\ HerdrTypeOK

\* attempt-driver.ts, recovery-flow.ts: no agent of a closed Attempt works on: its
\* successor would meet it in the worktree.
ClosedNeverWorks ==
    phase = "closed" =>
        /\ \A r \in Runner : child[r].life = "alive" => child[r].agent = "fresh" /\ ~child[r].inbox
        /\ adapter = "herdr-pi-cli" => agent \in {"none", "gone"}

RuntimeInv == PhaseInv /\ PiInv /\ HerdrInv

\* docs/runbooks/operator.zh-CN.md:74: an Attempt that is given up, for a deadline or a
\* stall, is terminated within bounds and closed, and a fresh one may take its place.
BlockedIsClosed == (phase = "blocked") ~> (phase = "closed")

-----------------------------------------------------------------------------
(* What it implements, under either runtime.                                *)

\* Somebody who has the prompt is alive, and did not stop to ask.
AgentWorks ==
    \/ adapter = "pi-rpc" /\ \E r \in Runner : child[r].life = "alive" /\ Prompted(r)
    \/ adapter = "herdr-pi-cli" /\ agent = "working"

\* A question is only asked where somebody could answer it.
AgentAsks == adapter = "herdr-pi-cli" /\ agent = "blocked"

\* The prompt can still come: of Herdr's only the ledger tells whether it was sent.
AwaitsPrompt ==
    \/ adapter = "pi-rpc" /\ phase # "closed" /\ \A r \in Runner : ~Prompted(r)
    \/ /\ adapter = "herdr-pi-cli"
       /\ phase \in {"prepared", "pane_ready", "agent_ready"} \/ (op = "prompt" /\ ending.at = "none")

agentTurn ==
    IF AgentWorks THEN "working" ELSE IF AgentAsks THEN "asking" ELSE IF AwaitsPrompt THEN "ahead" ELSE "over"

Turn == INSTANCE AgentTurn WITH
    turn <- agentTurn, closed <- (phase = "closed"), written <- result, handed <- taken

\* Whatever dies, is typed twice, answers late or is not heard of, the Attempt's agent takes
\* one turn, and the driver is given what it left behind: AgentTurn.
TurnIsKept == Turn!Spec

\* What that rests on besides RuntimeInv: an agent that settled was prompted, and one that
\* works or asks is past its prompt.
TurnInv ==
    /\ \A r \in Runner : "settled" \in child[r].said => Prompted(r)
    /\ AgentWorks \/ AgentAsks => ~AwaitsPrompt
=============================================================================
