---------------------------- MODULE HerdrRuntime ----------------------------
(***************************************************************************)
(* The Herdr adapter (adapters/herdr-cli.ts): the agent runs in the pane,  *)
(* under the Herdr server, and the Controller talks to that server.  A     *)
(* call may fail or time out after it took effect.  What ends a runtime is *)
(* recorded in its spool, and why it ended is recorded for good.           *)
(***************************************************************************)
EXTENDS RuntimePort

VARIABLES
    agent,      \* the agent as Herdr reports it
    answered,   \* history: a person answered it in its pane
    intent,     \* terminate.json: why the runtime has to end
    ended,      \* terminated.json
    ending      \* terminateBounded: where it is, for which reason

herdrVars == <<agent, answered, intent, ended, ending>>

Reasons == {"completed", "recovery", "cancelled", "runtime_stall", "attempt_deadline"}
NotEnding == [at |-> "none", reason |-> "none"]

HerdrTypeOK ==
    /\ agent \in {"none", "idle", "working", "done", "blocked", "gone"} /\ answered \in BOOLEAN
    /\ intent \in Reasons \union {"none"} /\ ended \in {"none", "ok", "failed"}
    /\ ending \in [at : {"none", "intent", "close", "exit"}, reason : Reasons \union {"none"}]

HerdrInit == agent = "none" /\ answered = FALSE /\ intent = "none" /\ ended = "none" /\ ending = NotEnding

-----------------------------------------------------------------------------
(* The agent, under Herdr.                                                  *)

ByAgent == UNCHANGED <<adapter, phase, op, tabs, open, late, taken, intent, ended, ending>>

\* A turn ends, or the agent asks a question.
AgentSettles ==
    /\ agent = "working" /\ agent' \in {"idle", "done", "blocked"}
    /\ ByAgent /\ UNCHANGED <<result, answered>>

\* A person answers it, whatever the Controller makes of it meanwhile.
AgentIsAnswered ==
    /\ agent = "blocked" /\ open /\ agent' = "working" /\ answered' = TRUE
    /\ ByAgent /\ UNCHANGED result

AgentWrites == agent = "working" /\ WritesResult /\ ByAgent /\ UNCHANGED <<agent, answered>>

\* It exits by itself, or some time after its pane was closed.
AgentExits ==
    /\ agent \notin {"none", "gone"} /\ agent' = "gone"
    /\ ByAgent /\ UNCHANGED <<result, answered>>

-----------------------------------------------------------------------------
(* The Controller.                                                          *)

Calls(operation)  == op = operation /\ ending.at = "none"
ByHerdr           == UNCHANGED <<adapter, tabs, late, result, answered>>
Ends(outcome)     == outcome /\ ending' = NotEnding
EndsFor(reason)   == ending' = [at |-> "intent", reason |-> reason] /\ UNCHANGED <<phase, op, taken>>

\* startAgent: an agent of that name that waits for its prompt is taken over; one that
\* does anything else is refused.
HerdrStartsAgent ==
    /\ Calls("start") /\ ~late
    /\ \/ agent \in {"idle", "done"} /\ Ends(Succeeded) /\ UNCHANGED agent
       \/ agent \notin {"idle", "done"} /\ Ends(Failed) /\ UNCHANGED agent
       \/ agent \in {"none", "gone"} /\ open /\ agent' = "idle" /\ (Ends(Succeeded) \/ Ends(Failed))
    /\ ByHerdr /\ UNCHANGED <<open, intent, ended>>

\* prompt: what became of it is only observed.
HerdrPrompts ==
    /\ Calls("prompt") /\ ~late
    /\ \/ agent = "idle" /\ agent' = "working" /\ (Ends(Succeeded) \/ EndsFor("runtime_stall"))
       \/ UNCHANGED agent /\ (Ends(Failed) \/ EndsFor("runtime_stall"))
    /\ ByHerdr /\ UNCHANGED <<open, intent, ended>>

\* remainingTotalMs, before or after the call of each operation.
HerdrTooLate ==
    /\ \E operation \in {"start", "prompt", "wait"} : Calls(operation)
    /\ late /\ EndsFor("attempt_deadline")
    /\ ByHerdr /\ UNCHANGED <<agent, open, intent, ended>>

\* waitBounded: the output stands still.
HerdrStalls ==
    /\ Calls("wait") /\ agent \in {"idle", "working"} /\ EndsFor("runtime_stall")
    /\ ByHerdr /\ UNCHANGED <<agent, open, intent, ended>>

\* observeWaitResult: the turn is over, or the agent is not found; the result file, if it
\* is there, is read either way.
HerdrObserves ==
    /\ Calls("wait") /\ ~late /\ agent # "working"
    /\ IF result > 0 THEN Ends(Succeeded) ELSE Ends(Failed)
    /\ ByHerdr /\ UNCHANGED <<agent, open, intent, ended>>

HerdrEnds ==
    /\ Calls("end")
    /\ \E reason \in IF taken # 0 THEN {"completed"} ELSE {"recovery", "cancelled"} : EndsFor(reason)
    /\ ByHerdr /\ UNCHANGED <<agent, open, intent, ended>>

\* The end that was asked for was confirmed: terminate returns, the others report why.
EndConfirmed == IF op = "end" THEN Ends(Succeeded) ELSE Ends(Failed)

\* terminateBounded: confirmed once is confirmed; another reason than the recorded one is
\* refused.
RecordsIntent ==
    /\ ending.at = "intent"
    /\ \/ ended = "ok" /\ EndConfirmed /\ UNCHANGED intent
       \/ ended # "ok" /\ intent \notin {"none", ending.reason} /\ Ends(Failed) /\ UNCHANGED intent
       \/ /\ ended # "ok" /\ intent \in {"none", ending.reason}
          /\ intent' = ending.reason /\ ending' = [ending EXCEPT !.at = "close"]
          /\ UNCHANGED <<phase, op, taken>>
    /\ ByHerdr /\ UNCHANGED <<agent, open, ended>>

\* closeWithTimeout.
ClosesAgentPane ==
    /\ ending.at = "close"
    /\ \/ open' = FALSE /\ ending' = [ending EXCEPT !.at = "exit"] /\ UNCHANGED <<phase, op, taken, ended>>
       \/ ended' = "failed" /\ open' \in {open, FALSE} /\ Ends(Failed)
    /\ ByHerdr /\ UNCHANGED <<agent, intent>>

\* Mutant: a closed pane is taken for the end of its agent.
ConfirmsAgentGone_Assumed ==
    /\ ending.at = "exit" /\ ended' = "ok" /\ EndConfirmed
    /\ ByHerdr /\ UNCHANGED <<agent, open, intent>>

\* waitAgentGone: for some time.
ConfirmsAgentGone ==
    /\ ending.at = "exit"
    /\ \/ agent \in {"none", "gone"} /\ ended' = "ok" /\ EndConfirmed
       \/ agent \notin {"none", "gone"} /\ ended' = "failed" /\ Ends(Failed)
    /\ ByHerdr /\ UNCHANGED <<agent, open, intent>>

HerdrControllerDies ==
    /\ op # "none" /\ op' = "none" /\ taken' = 0 /\ ending' = NotEnding
    /\ UNCHANGED <<adapter, phase, tabs, open, late, result, agent, answered, intent, ended>>

HerdrController ==
    \/ HerdrStartsAgent \/ HerdrPrompts \/ HerdrTooLate \/ HerdrStalls \/ HerdrObserves \/ HerdrEnds
    \/ RecordsIntent \/ ClosesAgentPane \/ ConfirmsAgentGone

HerdrAgent == AgentSettles \/ AgentIsAnswered \/ AgentWrites \/ AgentExits

\* An end that was confirmed stays one: without a pane no agent can be started again.
HerdrInv ==
    /\ ending.at # "none" => adapter = "herdr-pi-cli" /\ op \in {"start", "prompt", "wait", "end"}
    /\ ending.at = "exit" => ~open
    /\ ended = "ok" => ~open /\ phase # "prepared" /\ agent \in {"none", "gone"}
    /\ phase = "prepared" => agent = "none"
    /\ adapter = "herdr-pi-cli" /\ phase = "closed" => agent \in {"none", "gone"}
=============================================================================
