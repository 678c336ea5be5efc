----------------------------- MODULE AgentTurn -----------------------------
(***************************************************************************)
(* What a runtime promises the driver of an Attempt: its agent works one   *)
(* turn at most, which only a person can prolong; a result that was handed *)
(* out does not change unless a person had a part in it; and no turn is    *)
(* under way, or taken, once the Attempt is closed.  Nothing here knows of *)
(* panes, runners, receipts, servers or crashes.                           *)
(***************************************************************************)
EXTENDS Naturals

VARIABLES
    turn,       \* the one turn of the Attempt's agent
    answered,   \* a person answered a question of the agent
    closed,     \* the Attempt is closed in the ledger
    written,    \* versions of the result file written
    handed      \* the version the driver was given, 0 for none

turnVars == <<turn, answered, closed, written, handed>>

Init == turn = "ahead" /\ answered = FALSE /\ closed = FALSE /\ written = 0 /\ handed = 0

\* The driver forgets what it was given when its Controller dies, or an operation fails.
Forgets == handed' \in {handed, 0}

\* The prompt reaches the agent, or is found not to reach it any more.
Prompts ==
    /\ turn = "ahead" /\ turn' \in {"working", "over"}
    /\ Forgets /\ UNCHANGED <<answered, closed, written>>

Writes ==
    /\ turn = "working" /\ written' = written + 1
    /\ UNCHANGED <<turn, answered, closed, handed>>

Asks ==
    /\ turn = "working" /\ turn' = "asking"
    /\ UNCHANGED <<answered, closed, written, handed>>

IsAnswered ==
    /\ turn = "asking" /\ turn' = "working" /\ answered' = TRUE
    /\ UNCHANGED <<closed, written, handed>>

\* The agent settles, or is gone.
EndsTurn ==
    /\ turn \in {"working", "asking"} /\ turn' = "over"
    /\ Forgets /\ UNCHANGED <<answered, closed, written>>

HandsOver ==
    /\ turn \in {"asking", "over"} /\ ~closed /\ written # 0 /\ handed' = written
    /\ UNCHANGED <<turn, answered, closed, written>>

Loses == handed' = 0 /\ UNCHANGED <<turn, answered, closed, written>>

\* A turn that is still ahead then is not taken.
Closes ==
    /\ ~closed /\ closed' = TRUE
    /\ turn \in {"ahead", "over"} /\ turn' = "over"
    /\ Forgets /\ UNCHANGED <<answered, written>>

Next == Prompts \/ Writes \/ Asks \/ IsAnswered \/ EndsTurn \/ HandsOver \/ Loses \/ Closes

Spec == Init /\ [][Next]_turnVars

-----------------------------------------------------------------------------

\* attempt-driver.ts: the result that is settled is the one the agent left behind, and
\* whoever closes an Attempt is done with its agent.
TurnIsTakenOnce ==
    /\ handed # 0 /\ ~answered => handed = written /\ turn \in {"asking", "over"}
    /\ closed => turn = "over"
=============================================================================
