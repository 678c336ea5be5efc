-------------------------- MODULE OperatorApproval --------------------------
(***************************************************************************)
(* hermes-approval.ts: a challenge is a card in the chat with two buttons, *)
(* bound to the revision and the option of the Job it was requested for.   *)
(* One file holds the newest challenge; each button runs a process of its  *)
(* own, which reads that file and the ledger, has the Harness command      *)
(* decide, and writes the file back.                                       *)
(***************************************************************************)
EXTENDS Integers, FiniteSets

CONSTANTS
    Press,          \* processes that answer a button
    MaxChallenges,  \* bound: challenges requested
    MaxRevision     \* bound: revisions of the Job

ApprovalBounds == {MaxChallenges, MaxRevision} \subseteq Nat

VARIABLES
    approvalJob,    \* the active Job in the ledger
    challenge,      \* the file of the newest challenge
    asking,         \* what requests have read: the revision and the option
    issued,         \* the challenges requested: the cards in the chat
    press           \* what each process does

approvalVars == <<approvalJob, asking, challenge, issued, press>>

Kinds == {"approve_retry", "cancel"}
Cards == [token : 1..MaxChallenges, revision : 0..MaxRevision, kind : Kinds]
Challenges == [card : Cards, expired : BOOLEAN, decision : {"none", "confirmed", "held"}]

NoCard == [token |-> 0, revision |-> 0, kind |-> "none"]
NoChallenge == [card |-> NoCard, expired |-> TRUE, decision |-> "none"]

Idle == [stage |-> "idle", token |-> 0, button |-> "none", seen |-> NoChallenge]

Stages == {"idle", "pressed", "current", "decided", "recorded", "confirmed", "held", "refused", "rejected",
           "mismatch", "dead"}
Answer == [stage : Stages, token : 0..MaxChallenges, button : {"none", "confirm", "hold"},
             seen : Challenges \union {NoChallenge}]

ApprovalTypeOK ==
    /\ approvalJob \in [revision : 0..(MaxRevision + 1), options : SUBSET Kinds, decided : Cards \union {NoCard}]
    /\ asking \subseteq [revision : 0..MaxRevision, kind : Kinds]
    /\ issued \subseteq Cards /\ challenge \in Challenges \union {NoChallenge}
    /\ press \in [Press -> Answer]

ApprovalInit ==
    /\ approvalJob = [revision |-> 0, options |-> {}, decided |-> NoCard]
    /\ challenge = NoChallenge /\ issued = {} /\ asking = {}
    /\ press = [p \in Press |-> Idle]

-----------------------------------------------------------------------------

\* A save of the Controller: the Job goes on, blocks, or gets its advice.  The record of the
\* last decision stays for a while.
JobMoves ==
    /\ approvalJob.revision < MaxRevision
    /\ \E options \in {{}, Kinds, {"cancel"}}, decided \in {approvalJob.decided, NoCard} :
        approvalJob' = [revision |-> approvalJob.revision + 1, options |-> options, decided |-> decided]
    /\ UNCHANGED <<asking, challenge, issued, press>>

\* requestChallenge, for the Observer or for the operator: it reads the ledger ...
Requests(kind) ==
    /\ kind \in approvalJob.options
    /\ asking' = asking \union {[revision |-> approvalJob.revision, kind |-> kind]}
    /\ UNCHANGED <<approvalJob, challenge, issued, press>>

\* ... and saves the challenge, however late; the newest replaces the others.  Several
\* requests may have read the same.
Issues(ask) ==
    /\ Cardinality(issued) < MaxChallenges
    /\ LET card == [token |-> Cardinality(issued) + 1, revision |-> ask.revision, kind |-> ask.kind]
       IN  /\ issued' = issued \union {card}
           /\ challenge' = [card |-> card, expired |-> FALSE, decision |-> "none"]
    /\ UNCHANGED <<approvalJob, asking, press>>

Expires ==
    /\ challenge # NoChallenge /\ ~challenge.expired
    /\ challenge' = [challenge EXCEPT !.expired = TRUE] /\ UNCHANGED <<approvalJob, asking, issued, press>>

Stage(p, stage) == press[p].stage = stage
Goes(p, stage) == press' = [press EXCEPT ![p].stage = stage]

\* A button of any card in the chat.
Presses(p) ==
    /\ Stage(p, "idle")
    /\ \E token \in 1..Cardinality(issued), button \in {"confirm", "hold"} :
        press' = [press EXCEPT ![p] = [stage |-> "pressed", token |-> token, button |-> button, seen |-> NoChallenge]]
    /\ UNCHANGED <<approvalJob, asking, challenge, issued>>

\* decideChallenge: not used, not expired, and the token of this card.
Valid(p) == challenge.decision = "none" /\ ~challenge.expired /\ challenge.card.token = press[p].token

\* The challenge is read before the ledger; what was read of it is kept until the end.
ReadsChallenge(p) ==
    /\ Stage(p, "pressed") /\ press[p].seen = NoChallenge
    /\ IF Valid(p) THEN press' = [press EXCEPT ![p].seen = challenge] ELSE Goes(p, "refused")
    /\ UNCHANGED <<approvalJob, asking, challenge, issued>>

\* assertChallengeCurrent.
Current(p) == approvalJob.revision = press[p].seen.card.revision /\ press[p].seen.card.kind \in approvalJob.options

ReadsLedger(p) ==
    /\ Stage(p, "pressed") /\ press[p].seen # NoChallenge
    /\ Goes(p, IF Current(p) THEN "current" ELSE "refused")
    /\ UNCHANGED <<approvalJob, asking, challenge, issued>>

\* saveChallenge replaces whatever the file holds.
SavesAs(p, decision) ==
    /\ challenge' = [press[p].seen EXCEPT !.decision = decision]
    /\ Goes(p, decision) /\ UNCHANGED <<approvalJob, asking, issued>>

Holds(p) == Stage(p, "current") /\ press[p].button = "hold" /\ SavesAs(p, "held")

\* Mutant: the command trusts the check its caller made.
StillCurrent_Trusted(p) == TRUE

\* `decide --option`: the option is looked up again under the revision the save compares.
StillCurrent(p) == Current(p)

\* The command decides, or refuses; one that was cut off by its timeout may have decided.
Decides(p) ==
    /\ Stage(p, "current") /\ press[p].button = "confirm"
    /\ IF StillCurrent(p)
         THEN /\ approvalJob' = [revision |-> approvalJob.revision + 1, options |-> {},
                                 decided |-> [press[p].seen.card EXCEPT !.token = press[p].token]]
              /\ Goes(p, "decided") \/ Goes(p, "rejected")
         ELSE Goes(p, "rejected") /\ UNCHANGED approvalJob
    /\ UNCHANGED <<asking, challenge, issued>>

\* assertEffectRecorded: the record of this decision may be gone when it is looked for.
Verifies(p) ==
    /\ Stage(p, "decided")
    /\ Goes(p, IF /\ approvalJob.decided.revision = press[p].seen.card.revision
                 /\ approvalJob.decided.kind = press[p].seen.card.kind
                THEN "recorded" ELSE "mismatch")
    /\ UNCHANGED <<approvalJob, asking, challenge, issued>>

\* A save that fails is a warning: the decision stands.
Confirms(p) ==
    /\ Stage(p, "recorded")
    /\ SavesAs(p, "confirmed") \/ (Goes(p, "confirmed") /\ UNCHANGED <<approvalJob, asking, challenge, issued>>)

PressDies(p) ==
    press[p].stage \in {"pressed", "current", "decided", "recorded"} /\ Goes(p, "dead")
    /\ UNCHANGED <<approvalJob, asking, challenge, issued>>

ApprovalNext ==
    \/ JobMoves \/ Expires \/ (\E kind \in Kinds : Requests(kind)) \/ (\E ask \in asking : Issues(ask))
    \/ \E p \in Press :
        \/ Presses(p) \/ ReadsChallenge(p) \/ ReadsLedger(p) \/ Holds(p) \/ Decides(p) \/ Verifies(p) \/ Confirms(p)
        \/ PressDies(p)

-----------------------------------------------------------------------------

Deciding == {"decided", "recorded", "confirmed"}

\* "Operator cards are single-use challenges": two answers to one card never both decide,
\* however their processes interleave with each other and with newer cards.
ConfirmedOnce ==
    \A p, q \in Press :
        p # q /\ {press[p].stage, press[q].stage} \subseteq Deciding => press[p].token # press[q].token

\* "bound to the exact option and revision": what a button decides is what its own card
\* showed, whatever the Job and the newest challenge have become since.
ExactDecision == approvalJob.decided \in issued \union {NoCard}

\* decideChallenge answers a hold with "stays blocked; no recovery approval was written":
\* of a card that was answered so, nothing is decided.
HeldStaysBlocked ==
    \A p, q \in Press :
        press[p].stage = "held" /\ press[q].stage \in Deciding => press[p].token # press[q].token
-----------------------------------------------------------------------------
(* Why they hold: the inductive invariant.                                  *)

\* A token names one card.
TokensAreUnique ==
    /\ IsFiniteSet(issued) /\ Cardinality(issued) =< MaxChallenges
    /\ \A card \in issued : card.token =< Cardinality(issued)
    /\ \A card, other \in issued : card.token = other.token => card = other
    /\ challenge # NoChallenge => challenge.card \in issued
    /\ approvalJob.options # {} => approvalJob.revision =< MaxRevision

\* A process holds what its own button's card showed.
SeenIsPressed ==
    \A p \in Press :
        /\ press[p].seen # NoChallenge => press[p].seen.card \in issued /\ press[p].seen.card.token = press[p].token
        /\ press[p].stage \in {"current", "held"} \union Deciding => press[p].seen # NoChallenge

\* A decision leaves the revision it was taken under behind.
DecisionsMove == \A p \in Press : press[p].stage \in Deciding => press[p].seen.card.revision < approvalJob.revision

ApprovalInv ==
    ApprovalTypeOK /\ TokensAreUnique /\ SeenIsPressed /\ DecisionsMove /\ ConfirmedOnce /\ ExactDecision
=============================================================================
