---------------------------- MODULE JobLifecycle ----------------------------
(***************************************************************************)
(* What the Attempts of one Job promise to whoever reads the ledger or     *)
(* answers an incident: who may work when, what may be accepted from whom, *)
(* and who must agree before work is done again.  Nothing here knows of    *)
(* ticks, panes, handoffs, receipts or crashes.                            *)
(***************************************************************************)
EXTENDS Naturals

CONSTANT MaxRounds

VARIABLES
    stage,      \* what the Job waits for
    lane,       \* whose work it is
    head,       \* the HEAD it holds
    round,      \* reviews that were accepted
    attempt,    \* the agent of the newest Attempt
    passed,     \* HEADs a Reviewer reported `pass` for
    authorized  \* what policy rules have authorized, without a human

lifecycle == <<stage, lane, head, round, attempt, passed, authorized>>

\* Held is an incident nobody has answered; a policy rule authorizes, a human answers.
Answered == {"authorized", "answered"}
Open     == {"running", "held"} \union Answered

Fresh == [alive |-> FALSE, prompted |-> FALSE, reported |-> FALSE]

Init ==
    /\ stage = "ready" /\ lane = "worker" /\ head = 0 /\ round = 0
    /\ attempt = Fresh /\ passed = {} /\ authorized = {}

-----------------------------------------------------------------------------
(* An agent starts, is prompted once, reports once, and ends at any time.   *)

\* It may end at any time, and start until it is prompted.
MayLive == {FALSE, attempt.alive} \union {a \in {TRUE} : stage = "running" /\ ~attempt.prompted}
Lives   == \E alive \in MayLive : attempt' = [attempt EXCEPT !.alive = alive]

StartsOrEnds == Lives /\ UNCHANGED <<stage, lane, head, round, passed, authorized>>

Dispatches ==
    /\ stage = "running" /\ attempt.alive /\ ~attempt.prompted
    /\ attempt' = [attempt EXCEPT !.prompted = TRUE]
    /\ UNCHANGED <<stage, lane, head, round, passed, authorized>>

Reports ==
    /\ stage \in Open /\ attempt.alive /\ attempt.prompted /\ ~attempt.reported
    /\ attempt' = [attempt EXCEPT !.reported = TRUE]
    /\ \/ UNCHANGED passed
       \/ lane = "reviewer" /\ \E h \in passed' : passed' = passed \union {h}
    /\ UNCHANGED <<stage, lane, head, round, authorized>>

-----------------------------------------------------------------------------
(* The Job.                                                                *)

\* A fresh Attempt, when no agent of an earlier one is left.
Begins ==
    /\ stage = "ready" /\ ~attempt.alive
    /\ stage' = "running" /\ attempt' = Fresh
    /\ UNCHANGED <<lane, head, round, passed, authorized>>

Holds ==
    /\ stage \in {"running"} \union Answered /\ stage' = "held" /\ Lives
    /\ UNCHANGED <<lane, head, round, passed, authorized>>

\* What a lane may be retried for without a human, once on each HEAD.
Rules == {"provider_pre_side_effect_transient",
          IF lane = "worker" THEN "worker_pre_dispatch_infrastructure" ELSE "reviewer_same_head_infrastructure"}

\* A policy rule only retries what left no report.
Authorizes ==
    /\ stage = "held" /\ ~attempt.reported /\ stage' = "authorized" /\ Lives
    /\ \E rule \in Rules :
        LET authorization == [rule |-> rule, lane |-> lane, head |-> head]
        IN  authorization \notin authorized /\ authorized' = authorized \union {authorization}
    /\ UNCHANGED <<lane, head, round, passed>>

\* A human grants a retry, or lets the Job go.
Answers ==
    /\ stage = "held" /\ stage' \in {"answered", "cancelled"}
    /\ UNCHANGED <<lane, head, round, attempt, passed, authorized>>

\* An Attempt is given up for a fresh one when its agent is gone: of the same lane,
\* unless a human said otherwise.
Retires ==
    /\ stage \in Answered /\ ~attempt.alive /\ stage' = "ready"
    /\ lane' \in IF stage = "authorized" THEN {lane} ELSE {"worker", "reviewer"}
    /\ UNCHANGED <<head, round, attempt, passed, authorized>>

\* What is accepted was reported by an agent that is gone, also when the report came late.
Accepts == stage \in Open /\ attempt.reported /\ ~attempt.alive

AcceptsWork ==
    /\ Accepts /\ lane = "worker"
    /\ stage' = "ready" /\ lane' = "reviewer" /\ head' \in Nat /\ head' > head
    /\ UNCHANGED <<round, attempt, passed, authorized>>

AcceptsPass ==
    /\ Accepts /\ lane = "reviewer" /\ head \in passed /\ round < MaxRounds
    /\ stage' = "published" /\ round' = round + 1
    /\ UNCHANGED <<lane, head, attempt, passed, authorized>>

AcceptsChanges ==
    /\ Accepts /\ lane = "reviewer" /\ round + 1 < MaxRounds
    /\ stage' = "ready" /\ lane' = "worker" /\ round' = round + 1
    /\ UNCHANGED <<head, attempt, passed, authorized>>

Next ==
    \/ StartsOrEnds \/ Dispatches \/ Reports
    \/ Begins \/ Holds \/ Authorizes \/ Answers \/ Retires
    \/ AcceptsWork \/ AcceptsPass \/ AcceptsChanges

Spec == Init /\ [][Next]_lifecycle
=============================================================================
