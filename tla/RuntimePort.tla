---------------------------- MODULE RuntimePort ----------------------------
(***************************************************************************)
(* One Attempt as its runtime sees it: the driver creates its tab, starts  *)
(* the agent, prompts it once, waits for its result and closes it, one     *)
(* operation at a time, from the phase that is durable in the ledger.  The *)
(* Controller may die inside any operation and begins it again.            *)
(***************************************************************************)
EXTENDS Integers, FiniteSets

CONSTANT MaxResults     \* bound: how often an agent writes its result

ASSUME ResultsAssumption == MaxResults \in Nat

VARIABLES
    adapter,    \* executionSnapshot.adapter
    phase,      \* the Attempt in the ledger; "blocked" waits to be closed
    op,         \* the operation the Controller is in
    tabs,       \* Herdr tabs that carry the Attempt's label
    open,       \* the owned pane exists
    late,       \* runtimeDeadlineAt has passed
    result,     \* versions of the result file written
    taken       \* the version that wait handed to the driver

portVars == <<adapter, phase, op, tabs, open, late, result, taken>>

Phases == {"prepared", "pane_ready", "agent_ready", "running", "blocked", "closed"}
Operations == {"none", "pane", "start", "prompt", "wait", "end"}

PortTypeOK ==
    /\ adapter \in {"pi-rpc", "herdr-pi-cli"} /\ phase \in Phases /\ op \in Operations
    /\ tabs \in 0..2 /\ open \in BOOLEAN /\ late \in BOOLEAN
    /\ result \in 0..MaxResults /\ taken \in 0..MaxResults

PortInit ==
    /\ adapter \in {"pi-rpc", "herdr-pi-cli"}
    /\ phase = "prepared" /\ op = "none" /\ tabs = 0 /\ open = FALSE
    /\ late = FALSE /\ result = 0 /\ taken = 0

-----------------------------------------------------------------------------

\* driveAttempt: the operation the durable phase calls for.  `running` is saved
\* before the prompt goes out.
Begin ==
    /\ op = "none"
    /\ \/ phase = "prepared" /\ op' = "pane" /\ UNCHANGED phase
       \/ phase = "pane_ready" /\ op' = "start" /\ UNCHANGED phase
       \/ phase = "agent_ready" /\ op' = "prompt" /\ phase' = "running"
       \/ phase = "running" /\ op' = "wait" /\ UNCHANGED phase
       \/ phase = "blocked" /\ op' = "end" /\ UNCHANGED phase
    /\ UNCHANGED <<adapter, tabs, open, late, result, taken>>

\* A failed start, prompt or wait is observed again or blocks the Job.
Failed ==
    /\ op' = "none"
    /\ phase' \in {phase} \union {b \in {"blocked"} : op \in {"start", "wait"}}
    /\ taken' = 0

\* The operation succeeded; a result is checked and its Attempt closed in one tick.
Succeeded ==
    \/ op = "start" /\ phase' = "agent_ready" /\ op' = "none" /\ UNCHANGED taken
    \/ op = "prompt" /\ op' = "none" /\ UNCHANGED <<phase, taken>>
    \/ op = "wait" /\ op' = "end" /\ taken' = result /\ UNCHANGED phase
    \/ op = "end" /\ phase' = "closed" /\ op' = "none" /\ UNCHANGED taken

\* boundedAttemptTimeout: too late for a tab.  An Attempt without a handle has nothing
\* to close.
PaneTooLate ==
    /\ op = "pane" /\ late
    /\ op' = "none" /\ phase' \in {phase, "closed"}
    /\ UNCHANGED <<adapter, tabs, open, late, result, taken>>

\* findAttemptPane: a tab with the Attempt's label is adopted, two are refused.
FindPane ==
    /\ op = "pane" /\ tabs > 0 /\ ~late
    /\ op' = "none" /\ phase' = IF tabs = 1 THEN "pane_ready" ELSE phase
    /\ UNCHANGED <<adapter, tabs, open, late, result, taken>>

\* createAttemptPane: a reply that is lost or not understood leaves the tab.
CreatePane ==
    /\ op = "pane" /\ tabs = 0 /\ ~late
    /\ tabs' = 1 /\ open' = TRUE
    /\ op' = "none" /\ phase' \in {phase, "pane_ready"}
    /\ UNCHANGED <<adapter, late, result, taken>>

\* The Job is blocked, or cancelled by a person: the Attempt waits to be closed.
Retire ==
    /\ op = "none" /\ phase \in {"pane_ready", "agent_ready", "running"}
    /\ phase' = "blocked"
    /\ UNCHANGED <<adapter, op, tabs, open, late, result, taken>>

Deadline == ~late /\ late' = TRUE /\ UNCHANGED <<adapter, phase, op, tabs, open, result, taken>>

\* An agent's tools write the result file.
WritesResult == result < MaxResults /\ result' = result + 1

\* The operation the Controller is in is one the durable phase calls for.
PhaseInv ==
    /\ op = "pane" => phase = "prepared"
    /\ op = "start" => phase = "pane_ready"
    /\ op \in {"prompt", "wait"} => phase = "running"
    /\ op = "end" => phase \in {"running", "blocked"}

\* One Attempt has one tab, however often its creation was interrupted.
OnePane == tabs =< 1
=============================================================================
