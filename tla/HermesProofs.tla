---------------------------- MODULE HermesProofs ----------------------------
(***************************************************************************)
(* What Hermes promises the operator, for every number of Jobs, incidents, *)
(* lines of a log, faults, entries of an outbox, presses, cards, revisions *)
(* and changes of the Fleet: one inductive invariant for each of the three *)
(* that run, and the product of them.                                      *)
(***************************************************************************)
EXTENDS Hermes, Integers, Sequences, FiniteSets, SequenceTheorems, FiniteSetTheorems, TLAPS

-----------------------------------------------------------------------------
(* The approval bridge.                                                     *)

\* The instance counts with the FiniteSets of its own.
LEMMA CountsAgree ==
  ASSUME NEW S
  PROVE  (Approval!IsFiniteSet(S) <=> IsFiniteSet(S)) /\ Approval!Cardinality(S) = Cardinality(S)
<1>1. Approval!IsFiniteSet(S) <=> IsFiniteSet(S) BY DEF Approval!IsFiniteSet, IsFiniteSet
<1>2. Approval!Cardinality(S) = Cardinality(S) BY DEF Approval!Cardinality, Cardinality
<1> QED BY <1>1, <1>2

LEMMA ApprovalInitially == Approval!ApprovalInit => Approval!ApprovalInv
<1> SUFFICES ASSUME Approval!ApprovalInit PROVE Approval!ApprovalInv OBVIOUS
<1> USE DEF Approval!ApprovalInit
<1>1. {MaxChallenges, MaxRevision} \subseteq Nat BY HermesAssumption DEF Approval!ApprovalBounds
<1>2. approvalJob \in [revision : 0..(MaxRevision + 1), options : SUBSET Approval!Kinds,
        decided : Approval!Cards \union {Approval!NoCard}]
  BY <1>1
<1>3. press \in [Press -> Approval!Answer] /\ \A p \in Press : press[p] = Approval!Idle
  BY <1>1 DEF Approval!Answer, Approval!Stages, Approval!Idle
<1>4. Approval!ApprovalTypeOK BY <1>2, <1>3 DEF Approval!ApprovalTypeOK
<1>5. Approval!TokensAreUnique BY <1>1, FS_EmptySet, CountsAgree DEF Approval!TokensAreUnique
<1>6. Approval!SeenIsPressed /\ Approval!DecisionsMove /\ Approval!ConfirmedOnce
  BY <1>3 DEF Approval!SeenIsPressed, Approval!DecisionsMove, Approval!ConfirmedOnce, Approval!Deciding, Approval!Idle
<1> QED BY <1>4, <1>5, <1>6 DEF Approval!ApprovalInv, Approval!ExactDecision

\* A card that was requested is a card, and nothing is no card of a challenge.
LEMMA CardsAreReal ==
  ASSUME Approval!ApprovalInv
  PROVE  /\ Approval!NoChallenge \notin Approval!Challenges
         /\ \A p \in Press : press[p] \in Approval!Answer
         /\ \A p \in Press : press[p].seen # Approval!NoChallenge =>
              press[p].seen \in Approval!Challenges /\ press[p].seen.card \in issued
                /\ press[p].seen.card \in Approval!Cards
         /\ {MaxChallenges, MaxRevision} \subseteq Nat
<1>1. {MaxChallenges, MaxRevision} \subseteq Nat BY HermesAssumption DEF Approval!ApprovalBounds
<1>2. Approval!NoCard \notin Approval!Cards BY <1>1 DEF Approval!NoCard, Approval!Cards
<1>3. Approval!NoChallenge \notin Approval!Challenges BY <1>2 DEF Approval!NoChallenge, Approval!Challenges
<1>4. \A p \in Press : press[p] \in Approval!Answer BY DEF Approval!ApprovalInv, Approval!ApprovalTypeOK
<1>5. \A p \in Press : press[p].seen \in Approval!Challenges \union {Approval!NoChallenge} BY <1>4 DEF Approval!Answer
<1>6. \A c \in Approval!Challenges : c.card \in Approval!Cards BY DEF Approval!Challenges
<1> QED BY <1>1, <1>3, <1>4, <1>5, <1>6 DEF Approval!ApprovalInv, Approval!SeenIsPressed

\* A press that only moves on, to a stage that decides nothing.
LEMMA MovesOnKeeps ==
  ASSUME Approval!ApprovalInv, NEW p \in Press, NEW answer \in Approval!Answer, press' = [press EXCEPT ![p] = answer],
         answer.stage \notin Approval!Deciding \/ (answer.seen = press[p].seen /\ answer.token = press[p].token
                                               /\ press[p].stage \in Approval!Deciding),
         answer.seen # Approval!NoChallenge => answer.seen.card \in issued /\ answer.seen.card.token = answer.token,
         answer.stage \in {"current", "held"} => answer.seen # Approval!NoChallenge,
         UNCHANGED <<approvalJob, asking, issued>>,
         challenge' \in Approval!Challenges \union {Approval!NoChallenge},
         challenge' # Approval!NoChallenge => challenge'.card \in issued
  PROVE  Approval!ApprovalInv'
<1> USE DEF Approval!ApprovalInv
<1>1. press \in [Press -> Approval!Answer] BY DEF Approval!ApprovalTypeOK
<1>2. press' \in [Press -> Approval!Answer] /\ press'[p] = answer /\ \A q \in Press : q # p => press'[q] = press[q]
  BY <1>1
<1>3. Approval!ApprovalTypeOK' BY <1>2 DEF Approval!ApprovalTypeOK
<1>4. Approval!TokensAreUnique' /\ Approval!ExactDecision' BY DEF Approval!TokensAreUnique, Approval!ExactDecision
<1>5. Approval!SeenIsPressed' BY <1>2 DEF Approval!SeenIsPressed
<1>6. Approval!DecisionsMove' BY <1>2 DEF Approval!DecisionsMove
<1>7. Approval!ConfirmedOnce' BY <1>2 DEF Approval!ConfirmedOnce
<1> QED BY <1>3, <1>4, <1>5, <1>6, <1>7

LEMMA JobMovesKeeps ==
  ASSUME Approval!ApprovalInv, Approval!JobMoves \/ Approval!Expires
    \/ (\E kind \in Approval!Kinds : Approval!Requests(kind)) \/ (\E ask \in asking : Approval!Issues(ask))
  PROVE  Approval!ApprovalInv'
<1> USE DEF Approval!ApprovalInv
<1>1. {MaxChallenges, MaxRevision} \subseteq Nat /\ Approval!NoChallenge \notin Approval!Challenges BY CardsAreReal
<1>2. /\ approvalJob \in [revision : 0..(MaxRevision + 1), options : SUBSET Approval!Kinds,
         decided : Approval!Cards \union {Approval!NoCard}]
      /\ challenge \in Approval!Challenges \union {Approval!NoChallenge} /\ issued \subseteq Approval!Cards
      /\ asking \subseteq [revision : 0..MaxRevision, kind : Approval!Kinds]
  BY DEF Approval!ApprovalTypeOK
<1>3. CASE Approval!JobMoves
  <2>1. PICK options \in {{}, Approval!Kinds, {"cancel"}}, decided \in {approvalJob.decided, Approval!NoCard} :
          approvalJob' = [revision |-> approvalJob.revision + 1, options |-> options, decided |-> decided]
    BY <1>3 DEF Approval!JobMoves
  <2>2. UNCHANGED <<asking, challenge, issued, press>> /\ approvalJob.revision < MaxRevision
    BY <1>3 DEF Approval!JobMoves
  <2>3. approvalJob' \in [revision : 0..(MaxRevision + 1), options : SUBSET Approval!Kinds,
          decided : Approval!Cards \union {Approval!NoCard}]
        /\ approvalJob'.revision = approvalJob.revision + 1 /\ approvalJob'.revision =< MaxRevision
        /\ approvalJob'.decided \in {approvalJob.decided, Approval!NoCard}
    BY <1>1, <1>2, <2>1, <2>2 DEF Approval!Kinds
  <2>4. Approval!ApprovalTypeOK' BY <2>2, <2>3 DEF Approval!ApprovalTypeOK
  <2>5. Approval!TokensAreUnique' BY <2>2, <2>3 DEF Approval!TokensAreUnique
  <2>6. (Approval!SeenIsPressed /\ Approval!ConfirmedOnce)' BY <2>2 DEF Approval!SeenIsPressed, Approval!ConfirmedOnce
  <2>7. Approval!ExactDecision' BY <2>2, <2>3 DEF Approval!ExactDecision
  <2>8. Approval!DecisionsMove'
    <3>1. \A p \in Press : press[p].stage \in Approval!Deciding => press[p].seen.card \in Approval!Cards
      BY CardsAreReal DEF Approval!SeenIsPressed
    <3> QED BY <1>1, <1>2, <2>2, <2>3, <3>1 DEF Approval!DecisionsMove, Approval!Cards
  <2> QED BY <2>4, <2>5, <2>6, <2>7, <2>8
<1>4. CASE Approval!Expires
  <2>1. UNCHANGED <<approvalJob, asking, issued, press>> /\ challenge # Approval!NoChallenge
          /\ challenge' = [challenge EXCEPT !.expired = TRUE]
    BY <1>4 DEF Approval!Expires
  <2>2. challenge' \in Approval!Challenges /\ challenge'.card = challenge.card BY <1>2, <2>1 DEF Approval!Challenges
  <2>3. Approval!ApprovalTypeOK' BY <2>1, <2>2 DEF Approval!ApprovalTypeOK
  <2>4. Approval!TokensAreUnique' BY <2>1, <2>2 DEF Approval!TokensAreUnique
  <2>5. (Approval!SeenIsPressed /\ Approval!ConfirmedOnce /\ Approval!ExactDecision /\ Approval!DecisionsMove)'
    BY <2>1 DEF Approval!SeenIsPressed, Approval!ConfirmedOnce, Approval!ExactDecision, Approval!DecisionsMove
  <2> QED BY <2>3, <2>4, <2>5
<1>6. ASSUME NEW kind \in Approval!Kinds, Approval!Requests(kind) PROVE Approval!ApprovalInv'
  <2>1. UNCHANGED <<approvalJob, challenge, issued, press>> /\ approvalJob.options # {}
        /\ asking' = asking \union {[revision |-> approvalJob.revision, kind |-> kind]}
    BY <1>6 DEF Approval!Requests
  <2>2. approvalJob.revision \in 0..MaxRevision BY <1>1, <1>2, <2>1 DEF Approval!TokensAreUnique
  <2>3. Approval!ApprovalTypeOK' BY <1>2, <2>1, <2>2 DEF Approval!ApprovalTypeOK
  <2>4. Approval!TokensAreUnique' BY <2>1 DEF Approval!TokensAreUnique
  <2>5. (Approval!SeenIsPressed /\ Approval!ConfirmedOnce /\ Approval!ExactDecision /\ Approval!DecisionsMove)'
    BY <2>1 DEF Approval!SeenIsPressed, Approval!ConfirmedOnce, Approval!ExactDecision, Approval!DecisionsMove
  <2> QED BY <2>3, <2>4, <2>5
<1>5. ASSUME NEW ask \in asking, Approval!Issues(ask) PROVE Approval!ApprovalInv'
  <2> DEFINE card == [token |-> Cardinality(issued) + 1, revision |-> ask.revision, kind |-> ask.kind]
  <2>1. /\ UNCHANGED <<approvalJob, asking, press>> /\ issued' = issued \union {card}
        /\ Cardinality(issued) < MaxChallenges
        /\ challenge' = [card |-> card, expired |-> FALSE, decision |-> "none"]
    BY <1>5, CountsAgree DEF Approval!Issues
  <2>2. IsFiniteSet(issued) /\ Cardinality(issued) \in Nat
    BY FS_CardinalityType, CountsAgree DEF Approval!TokensAreUnique
  <2>3. card \in Approval!Cards /\ card.token = Cardinality(issued) + 1
    BY <1>1, <1>2, <2>1, <2>2, CountsAgree DEF Approval!Cards, Approval!TokensAreUnique
  <2> HIDE DEF card
  <2>4. \A c \in issued : c.token \in Nat /\ c.token =< Cardinality(issued)
    BY <1>1, <1>2, CountsAgree DEF Approval!Cards, Approval!TokensAreUnique
  <2>5. card \notin issued /\ \A c \in issued : c.token # card.token BY <2>2, <2>3, <2>4
  <2>6. IsFiniteSet(issued') /\ Cardinality(issued') = Cardinality(issued) + 1
    BY <2>1, <2>2, <2>5, FS_AddElement
  <2>7. challenge' \in Approval!Challenges /\ challenge'.card = card BY <2>1, <2>3 DEF Approval!Challenges
  <2>8. Approval!ApprovalTypeOK' BY <1>2, <2>1, <2>3, <2>7 DEF Approval!ApprovalTypeOK
  <2>9. Approval!TokensAreUnique'
    <3>1. Cardinality(issued') =< MaxChallenges BY <1>1, <2>1, <2>2, <2>6
    <3>2. \A c \in issued' : c.token =< Cardinality(issued') BY <2>1, <2>2, <2>3, <2>4, <2>6
    <3>3. \A c, d \in issued' : c.token = d.token => c = d BY <2>1, <2>5 DEF Approval!TokensAreUnique
    <3> QED BY <2>1, <2>6, <2>7, <3>1, <3>2, <3>3, CountsAgree DEF Approval!TokensAreUnique
  <2>10. (Approval!SeenIsPressed /\ Approval!ConfirmedOnce /\ Approval!ExactDecision /\ Approval!DecisionsMove)'
    BY <2>1 DEF Approval!SeenIsPressed, Approval!ConfirmedOnce, Approval!ExactDecision, Approval!DecisionsMove
  <2> QED BY <2>8, <2>9, <2>10
<1> QED BY <1>3, <1>4, <1>5, <1>6

\* Everything a process does but the decision itself.
LEMMA AnswersKeep ==
  ASSUME Approval!ApprovalInv, NEW p \in Press,
         \/ Approval!Presses(p) \/ Approval!ReadsChallenge(p) \/ Approval!ReadsLedger(p) \/ Approval!Holds(p)
         \/ Approval!Verifies(p) \/ Approval!Confirms(p) \/ Approval!PressDies(p)
  PROVE  Approval!ApprovalInv'
<1> USE DEF Approval!ApprovalInv
<1>1. /\ press \in [Press -> Approval!Answer] /\ press[p] \in Approval!Answer
         /\ challenge \in Approval!Challenges \union {Approval!NoChallenge}
      /\ (challenge # Approval!NoChallenge => challenge.card \in issued)
      /\ (press[p].seen # Approval!NoChallenge => /\ press[p].seen \in Approval!Challenges
                                                     /\ press[p].seen.card \in issued
                                            /\ press[p].seen.card.token = press[p].token)
      /\ (press[p].stage \in {"current", "held"} \union Approval!Deciding => press[p].seen # Approval!NoChallenge)
  BY CardsAreReal DEF Approval!ApprovalTypeOK, Approval!TokensAreUnique, Approval!SeenIsPressed
<1>2. ASSUME NEW stage \in Approval!Stages, Approval!Goes(p, stage), UNCHANGED <<approvalJob, asking, issued>>,
             stage \notin Approval!Deciding \/ press[p].stage \in Approval!Deciding,
             stage \in {"current", "held"} => press[p].seen # Approval!NoChallenge,
             challenge' \in Approval!Challenges \union {Approval!NoChallenge}, challenge' # Approval!NoChallenge
               => challenge'.card \in issued
      PROVE  Approval!ApprovalInv'
  <2> DEFINE answer == [press[p] EXCEPT !.stage = stage]
  <2>1. answer \in Approval!Answer /\ answer.stage = stage /\ answer.seen = press[p].seen
          /\ answer.token = press[p].token
    BY <1>1 DEF Approval!Answer
  <2>2. press' = [press EXCEPT ![p] = answer] BY <1>1, <1>2 DEF Approval!Goes
  <2> HIDE DEF answer
  <2> QED BY <1>1, <1>2, <2>1, <2>2, MovesOnKeeps
<1>4. CASE Approval!Presses(p)
  <2>1. PICK token \in 1..Approval!Cardinality(issued), button \in {"confirm", "hold"} :
          press' = [press EXCEPT ![p] = [stage |-> "pressed", token |-> token, button |-> button,
            seen |-> Approval!NoChallenge]]
    BY <1>4 DEF Approval!Presses
  <2>2. token \in 0..MaxChallenges
    BY CardsAreReal, FS_CardinalityType, CountsAgree DEF Approval!TokensAreUnique
  <2>3. [stage |-> "pressed", token |-> token, button |-> button, seen |-> Approval!NoChallenge] \in Approval!Answer
    BY <2>2 DEF Approval!Answer, Approval!Stages
  <2> QED BY <1>1, <1>4, <2>1, <2>3, MovesOnKeeps DEF Approval!Presses, Approval!Deciding
<1>5. CASE Approval!ReadsChallenge(p)
  <2>1. CASE Approval!Valid(p)
    <3>1. challenge \in Approval!Challenges /\ challenge.card.token = press[p].token
      BY <1>1, <2>1 DEF Approval!Valid, Approval!NoChallenge
    <3> DEFINE answer == [press[p] EXCEPT !.seen = challenge]
    <3>2. answer \in Approval!Answer /\ answer.stage = "pressed" /\ answer.seen = challenge
            /\ answer.token = press[p].token
      BY <1>1, <1>5 DEF Approval!Answer, Approval!ReadsChallenge, Approval!Stage
    <3>3. press' = [press EXCEPT ![p] = answer] BY <1>1, <1>5, <2>1 DEF Approval!ReadsChallenge
    <3> HIDE DEF answer
    <3> QED BY <1>1, <1>5, <3>1, <3>2, <3>3, MovesOnKeeps, CardsAreReal DEF Approval!ReadsChallenge, Approval!Deciding
  <2>2. CASE ~Approval!Valid(p)
    <3>1. "refused" \in Approval!Stages /\ "refused" \notin Approval!Deciding
      BY DEF Approval!Stages, Approval!Deciding
    <3>2. Approval!Goes(p, "refused") /\ UNCHANGED <<approvalJob, asking, challenge, issued>>
      BY <1>5, <2>2 DEF Approval!ReadsChallenge
    <3> QED BY <1>1, <1>2, <3>1, <3>2
  <2> QED BY <2>1, <2>2
<1>6. CASE Approval!ReadsLedger(p)
  <2>1. PICK stage \in {"current", "refused"} : Approval!Goes(p, stage) BY <1>6 DEF Approval!ReadsLedger
  <2>2. stage \in Approval!Stages /\ stage \notin Approval!Deciding BY DEF Approval!Stages, Approval!Deciding
  <2>3. press[p].seen # Approval!NoChallenge /\ UNCHANGED <<approvalJob, asking, challenge, issued>>
    BY <1>6 DEF Approval!ReadsLedger
  <2> QED BY <1>1, <1>2, <2>1, <2>2, <2>3
<1>7. ASSUME NEW decision \in {"confirmed", "held"}, Approval!SavesAs(p, decision), press[p].stage \in {"current",
        "recorded"},
             decision = "confirmed" => press[p].stage = "recorded"
      PROVE  Approval!ApprovalInv'
  <2>1. press[p].seen # Approval!NoChallenge BY <1>1, <1>7 DEF Approval!Deciding
  <2>2. challenge' = [press[p].seen EXCEPT !.decision = decision] BY <1>7 DEF Approval!SavesAs
  <2>3. challenge' \in Approval!Challenges /\ challenge'.card \in issued BY <1>1, <2>1, <2>2 DEF Approval!Challenges
  <2>4. decision \in Approval!Stages /\ (decision = "held" => decision \notin Approval!Deciding)
          /\ "recorded" \in Approval!Deciding
    BY DEF Approval!Stages, Approval!Deciding
  <2>5. Approval!Goes(p, decision) /\ UNCHANGED <<approvalJob, asking, issued>> BY <1>7 DEF Approval!SavesAs
  <2> QED BY <1>1, <1>2, <1>7, <2>1, <2>3, <2>4, <2>5
<1>8. CASE Approval!Holds(p) BY <1>7, <1>8 DEF Approval!Holds, Approval!Stage
<1>9. CASE Approval!Verifies(p)
  <2>1. PICK stage \in {"recorded", "mismatch"} : Approval!Goes(p, stage) BY <1>9 DEF Approval!Verifies
  <2>2. stage \in Approval!Stages /\ press[p].stage \in Approval!Deciding /\ stage \notin {"current", "held"}
    BY <1>9 DEF Approval!Stages, Approval!Deciding, Approval!Verifies, Approval!Stage
  <2>3. UNCHANGED <<approvalJob, asking, challenge, issued>> BY <1>9 DEF Approval!Verifies
  <2> QED BY <1>1, <1>2, <2>1, <2>2, <2>3
<1>10. CASE Approval!Confirms(p)
  <2>1. CASE Approval!SavesAs(p, "confirmed") BY <1>7, <1>10, <2>1 DEF Approval!Confirms, Approval!Stage
  <2>2. CASE Approval!Goes(p, "confirmed") /\ UNCHANGED <<approvalJob, asking, challenge, issued>>
    <3>1. "confirmed" \in Approval!Stages /\ press[p].stage \in Approval!Deciding
      BY <1>10 DEF Approval!Stages, Approval!Deciding, Approval!Confirms, Approval!Stage
    <3> QED BY <1>1, <1>2, <2>2, <3>1
  <2> QED BY <1>10, <2>1, <2>2 DEF Approval!Confirms
<1>11. CASE Approval!PressDies(p)
  <2>1. "dead" \in Approval!Stages /\ "dead" \notin Approval!Deciding BY DEF Approval!Stages, Approval!Deciding
  <2>2. Approval!Goes(p, "dead") /\ UNCHANGED <<approvalJob, asking, challenge, issued>>
    BY <1>11 DEF Approval!PressDies
  <2> QED BY <1>1, <1>2, <2>1, <2>2
<1> QED BY <1>4, <1>5, <1>6, <1>8, <1>9, <1>10, <1>11

\* The decision: whoever answered the same card before left its revision behind.
LEMMA DecidesKeeps ==
  ASSUME Approval!ApprovalInv, NEW p \in Press, Approval!Decides(p)
  PROVE  Approval!ApprovalInv'
<1> USE DEF Approval!ApprovalInv
<1>1. /\ press \in [Press -> Approval!Answer] /\ press[p] \in Approval!Answer /\ press[p].stage = "current"
      /\ challenge \in Approval!Challenges \union {Approval!NoChallenge} /\ (challenge # Approval!NoChallenge
         => challenge.card \in issued)
      /\ press[p].seen \in Approval!Challenges /\ press[p].seen.card \in issued
         /\ press[p].seen.card \in Approval!Cards
      /\ press[p].seen.card.token = press[p].token /\ press[p].seen # Approval!NoChallenge
      /\ UNCHANGED <<asking, challenge, issued>> /\ MaxRevision \in Nat
  BY CardsAreReal
     DEF Approval!ApprovalTypeOK, Approval!TokensAreUnique, Approval!SeenIsPressed, Approval!Decides, Approval!Stage
<1>2. ASSUME NEW stage \in {"decided", "rejected"}, Approval!Goes(p, stage)
      PROVE  /\ press' = [press EXCEPT ![p] = [press[p] EXCEPT !.stage = stage]]
             /\ [press[p] EXCEPT !.stage = stage] \in Approval!Answer
             /\ press' \in [Press -> Approval!Answer] /\ press'[p].stage = stage /\ press'[p].seen = press[p].seen
             /\ press'[p].token = press[p].token /\ \A q \in Press : q # p => press'[q] = press[q]
  <2>1. press' = [press EXCEPT ![p] = [press[p] EXCEPT !.stage = stage]] BY <1>1, <1>2 DEF Approval!Goes
  <2>2. [press[p] EXCEPT !.stage = stage] \in Approval!Answer BY <1>1 DEF Approval!Answer, Approval!Stages
  <2> QED BY <1>1, <2>1, <2>2
<1>3. CASE ~Approval!StillCurrent(p)
  <2>1. Approval!Goes(p, "rejected") /\ UNCHANGED approvalJob BY <1>3 DEF Approval!Decides
  <2> DEFINE answer == [press[p] EXCEPT !.stage = "rejected"]
  <2>2. answer \in Approval!Answer /\ press' = [press EXCEPT ![p] = answer] BY <1>2, <2>1
  <2>3. answer.stage = "rejected" /\ answer.seen = press[p].seen /\ answer.token = press[p].token
    BY <1>1 DEF Approval!Answer
  <2> HIDE DEF answer
  <2>4. answer.stage \notin Approval!Deciding BY <2>3 DEF Approval!Deciding
  <2> QED BY <1>1, <2>1, <2>2, <2>3, <2>4, MovesOnKeeps
<1>4. CASE Approval!StillCurrent(p)
  <2>1. PICK stage \in {"decided", "rejected"} : Approval!Goes(p, stage) BY <1>4 DEF Approval!Decides
  <2>2. [press[p].seen.card EXCEPT !.token = press[p].token] = press[p].seen.card BY <1>1 DEF Approval!Cards
  <2>3. /\ approvalJob' = [revision |-> approvalJob.revision + 1, options |-> {}, decided |-> press[p].seen.card]
        /\ approvalJob.revision = press[p].seen.card.revision
    BY <1>4, <2>2 DEF Approval!Decides, Approval!StillCurrent, Approval!Current
  <2>4. approvalJob.revision \in 0..MaxRevision BY <1>1, <2>3 DEF Approval!Cards
  <2>5. /\ approvalJob' \in [revision : 0..(MaxRevision + 1), options : SUBSET Approval!Kinds,
           decided : Approval!Cards \union {Approval!NoCard}]
        /\ approvalJob'.revision = approvalJob.revision + 1 /\ approvalJob'.options = {}
           /\ approvalJob'.decided \in issued
    BY <1>1, <2>3, <2>4
  <2>6. Approval!ApprovalTypeOK' BY <1>1, <1>2, <2>1, <2>5 DEF Approval!ApprovalTypeOK
  <2>7. Approval!TokensAreUnique' /\ Approval!ExactDecision'
    BY <1>1, <2>5 DEF Approval!TokensAreUnique, Approval!ExactDecision
  <2>8. Approval!SeenIsPressed' BY <1>1, <1>2, <2>1 DEF Approval!SeenIsPressed
  <2>9. Approval!DecisionsMove'
    <3>1. \A q \in Press : press[q].stage \in Approval!Deciding => press[q].seen.card \in Approval!Cards
      BY CardsAreReal DEF Approval!SeenIsPressed
    <3> QED BY <1>1, <1>2, <2>1, <2>3, <2>4, <2>5, <3>1 DEF Approval!DecisionsMove, Approval!Cards
  <2>10. Approval!ConfirmedOnce'
    <3>1. ASSUME NEW q \in Press, q # p, press[q].stage \in Approval!Deciding PROVE press[q].token # press[p].token
      <4>1. press[q].seen.card \in issued /\ press[q].seen.card.token = press[q].token
              /\ press[q].seen.card \in Approval!Cards
        BY <3>1, CardsAreReal DEF Approval!SeenIsPressed
      <4>2. press[q].seen.card.revision < press[p].seen.card.revision BY <2>3, <3>1 DEF Approval!DecisionsMove
      <4>3. press[q].seen.card # press[p].seen.card BY <1>1, <4>1, <4>2 DEF Approval!Cards
      <4> QED BY <1>1, <4>1, <4>3 DEF Approval!TokensAreUnique
    <3> QED BY <1>1, <1>2, <2>1, <3>1 DEF Approval!ConfirmedOnce
  <2> QED BY <2>6, <2>7, <2>8, <2>9, <2>10
<1> QED BY <1>3, <1>4

LEMMA ApprovalStepKeeps == Approval!ApprovalInv /\ [Approval!ApprovalNext]_approvalVars => Approval!ApprovalInv'
<1> SUFFICES ASSUME Approval!ApprovalInv, [Approval!ApprovalNext]_approvalVars PROVE Approval!ApprovalInv' OBVIOUS
<1>1. CASE UNCHANGED approvalVars
  BY <1>1 DEF approvalVars, Approval!ApprovalInv, Approval!ApprovalTypeOK, Approval!TokensAreUnique,
     Approval!SeenIsPressed, Approval!DecisionsMove,
     Approval!ConfirmedOnce, Approval!ExactDecision
<1>2. CASE Approval!ApprovalNext BY <1>2, JobMovesKeeps, AnswersKeep, DecidesKeeps DEF Approval!ApprovalNext
<1> QED BY <1>1, <1>2

-----------------------------------------------------------------------------
(* The Observer of a project.                                               *)

\* The instance counts with the FiniteSets of its own.
LEMMA ObserverCountsAgree ==
  ASSUME NEW S
  PROVE  (Observer!IsFiniteSet(S) <=> IsFiniteSet(S)) /\ Observer!Cardinality(S) = Cardinality(S)
<1>1. Observer!IsFiniteSet(S) <=> IsFiniteSet(S) BY DEF Observer!IsFiniteSet, IsFiniteSet
<1>2. Observer!Cardinality(S) = Cardinality(S) BY DEF Observer!Cardinality, Cardinality
<1> QED BY <1>1, <1>2

LEMMA ImagesAreFinite ==
  ASSUME NEW S, IsFiniteSet(S), NEW f, DOMAIN f = S, f = [x \in S |-> f[x]]
  PROVE  IsFiniteSet({f[x] : x \in S})
<1> DEFINE T == {f[x] : x \in S}
<1>1. f \in [S -> T] /\ \A y \in T : \E x \in S : f[x] = y OBVIOUS
<1>2. f \in Surjection(S, T) BY <1>1 DEF Surjection
<1> QED BY <1>2, FS_Surjection

\* Whatever a cycle reads, there is a finite number of notices to make of it.
LEMMA NewsAreFinite ==
  ASSUME Observer!ObserverTypeOK, NEW view \in Observer!Views
  PROVE  IsFiniteSet(Observer!LedgerNews(view)) /\ IsFiniteSet(Observer!LogNews(view))
    /\ IsFiniteSet(Observer!HeartbeatNews(view))
<1>1. /\ project \in Observer!Projects /\ project.job \in Observer!Jobs /\ project.log \in Seq({"ok", "failed"})
      /\ project.job.recoveries \in Nat /\ project.terminals \in Nat /\ view.offset \in Nat /\ view.terminals \in Nat
      /\ view.recoveries \in Nat
  BY HermesAssumption
     DEF Observer!ObserverTypeOK, Observer!Projects, Observer!Jobs, Observer!Views, Observer!ObserverBounds
<1>2. IsFiniteSet({}) /\ \A n : IsFiniteSet({n}) BY FS_EmptySet, FS_Singleton
<1>3. \A S, T : IsFiniteSet(S) /\ IsFiniteSet(T) => IsFiniteSet(S \union T) BY FS_Union
<1>4. ASSUME NEW offset \in Int PROVE IsFiniteSet(Observer!Recoveries(project.job, offset))
  <2> DEFINE S == (offset + 1)..project.job.recoveries
             f == [n \in S |-> Observer!Notice("recovery", (MaxIncidents + 1) * project.job.id + n)]
  <2>1. IsFiniteSet(S)
    <3>1. offset + 1 \in Int /\ project.job.recoveries \in Int BY <1>1
    <3> QED BY <3>1, FS_Interval
  <2>2. DOMAIN f = S /\ f = [n \in S |-> f[n]] OBVIOUS
  <2>3. IsFiniteSet({f[n] : n \in S})
    <3> HIDE DEF f, S
    <3> QED BY <2>1, <2>2, ImagesAreFinite
  <2>4. Observer!Recoveries(project.job, offset) = {f[n] : n \in S} BY DEF Observer!Recoveries
  <2> QED BY <2>3, <2>4
<1>5. IsFiniteSet(Observer!FirstRecoveries(project.job))
  <2>1. 0 \in Int /\ project.job.recoveries - 1 \in Int BY <1>1
  <2>2. IsFiniteSet(Observer!Recoveries(project.job, 0))
          /\ IsFiniteSet(Observer!Recoveries(project.job, project.job.recoveries - 1))
    BY <1>4, <2>1
  <2> QED BY <1>2, <2>2 DEF Observer!FirstRecoveries
<1>6. \A i, a : IsFiniteSet(Observer!Situation(project.job, i, a)) BY <1>2 DEF Observer!Situation
<1>7. IsFiniteSet(Observer!Mended(view)) /\ IsFiniteSet(Observer!HeartbeatNews(view))
  BY <1>2 DEF Observer!Mended, Observer!HeartbeatNews
<1>8. IsFiniteSet(Observer!Ended(view))
  <2> DEFINE S == (view.terminals + 1)..project.terminals
             f == [t \in S |-> Observer!Notice("terminal", t)]
  <2>1. IsFiniteSet(S)
    <3>1. view.terminals + 1 \in Int /\ project.terminals \in Int BY <1>1
    <3> QED BY <3>1, FS_Interval
  <2>2. DOMAIN f = S /\ f = [t \in S |-> f[t]] OBVIOUS
  <2>3. IsFiniteSet({f[t] : t \in S})
    <3> HIDE DEF f, S
    <3> QED BY <2>1, <2>2, ImagesAreFinite
  <2>4. {Observer!Notice("terminal", t) : t \in S} = {f[t] : t \in S} OBVIOUS
  <2> HIDE DEF f
  <2> QED BY <1>2, <2>3, <2>4 DEF Observer!Ended
<1>9. IsFiniteSet(Observer!LogNews(view))
  <2> DEFINE S == {l \in DOMAIN Observer!Lines(view) : Observer!TellsLine(view, l)}
             f == [l \in S |-> Observer!Notice("failure", view.offset + l)]
  <2>1. IsFiniteSet(S)
    <3>1. Observer!Lines(view) \in Seq({"ok", "failed"}) BY <1>1, SubSeqProperties DEF Observer!Lines
    <3>2. DOMAIN Observer!Lines(view) = 1..Len(Observer!Lines(view)) /\ Len(Observer!Lines(view)) \in Nat BY <3>1
    <3>3. IsFiniteSet(DOMAIN Observer!Lines(view)) BY <3>2, FS_Interval
    <3> QED BY <3>3, FS_Subset
  <2>2. DOMAIN f = S /\ f = [l \in S |-> f[l]] OBVIOUS
  <2>3. IsFiniteSet({f[l] : l \in S})
    <3> HIDE DEF f, S
    <3> QED BY <2>1, <2>2, ImagesAreFinite
  <2>4. {Observer!Notice("failure", view.offset + l) : l \in S} = {f[l] : l \in S} OBVIOUS
  <2>5. IsFiniteSet({Observer!Notice("log_reset", 0) : v \in {version} \ {2}})
    <3> DEFINE shrunk == {Observer!Notice("log_reset", 0) : v \in {version} \ {2}}
    <3>1. shrunk = {} \/ shrunk = {Observer!Notice("log_reset", 0)} OBVIOUS
    <3> HIDE DEF shrunk
    <3>2. IsFiniteSet(shrunk) BY <1>2, <3>1
    <3> QED BY <3>2 DEF shrunk
  <2> HIDE DEF f
  <2> QED BY <1>2, <2>3, <2>4, <2>5 DEF Observer!LogNews
<1>10. IsFiniteSet(Observer!JobNews(view))
  <2>1. IsFiniteSet(Observer!Recoveries(project.job, view.recoveries)) BY <1>1, <1>4
  <2> QED BY <1>2, <1>3, <1>5, <1>6, <2>1 DEF Observer!JobNews, Observer!FirstOf, Observer!Job
<1>11. IsFiniteSet(Observer!FirstNews) BY <1>2, <1>5, <1>6 DEF Observer!FirstNews, Observer!FirstOf, Observer!Job
<1>12. IsFiniteSet(Observer!LedgerNews(view))
  <2>1. IsFiniteSet(IF version = 2 THEN Observer!HeartbeatNews(view) ELSE {}) BY <1>2, <1>7
  <2>2. IsFiniteSet(Observer!Ended(view) \union Observer!JobNews(view)
                      \union IF version = 2 THEN Observer!HeartbeatNews(view) ELSE {})
    BY <1>3, <1>8, <1>10, <2>1
  <2> QED BY <1>3, <1>7, <1>11, <2>2 DEF Observer!LedgerNews
<1> QED BY <1>7, <1>9, <1>12

\* What is kept of a ledger and of a log is a view.
LEMMA BaselineIsAView ==
  ASSUME Observer!ObserverTypeOK, NEW view \in Observer!Views
  PROVE  Observer!Baseline(view) \in Observer!Views /\ Observer!Baseline(view).ready
    /\ Observer!Baseline(view).terminals = project.terminals
<1>1. project \in Observer!Projects /\ project.job \in Observer!Jobs BY DEF Observer!ObserverTypeOK, Observer!Projects
<1>2. project.terminals \in 0..MaxJobs /\ project.beats \in BOOLEAN BY <1>1 DEF Observer!Projects
<1>3. /\ project.job.id \in Nat /\ project.job.incident \in Nat /\ project.job.recoveries \in Nat
      /\ Observer!AnalysisOf(project.job) \in Nat
  BY <1>1 DEF Observer!Jobs, Observer!AnalysisOf
<1> DEFINE down == IF version = 2 THEN ~project.beats ELSE view.down
<1>4. down \in BOOLEAN BY <1>2 DEF Observer!Views
<1> HIDE DEF down
<1>5. Observer!Baseline(view) =
        [view EXCEPT !.ready = TRUE, !.healthy = TRUE, !.job = project.job.id, !.incident = project.job.incident,
                     !.analysis = Observer!AnalysisOf(project.job), !.recoveries = project.job.recoveries,
                     !.terminals = project.terminals, !.down = down]
  BY DEF Observer!Baseline, Observer!Job, Observer!Views, down
<1> QED BY <1>2, <1>3, <1>4, <1>5 DEF Observer!Views

LEMMA AfterLogIsAView ==
  ASSUME Observer!ObserverTypeOK, NEW view \in Observer!Views
  PROVE  Observer!AfterLog(view) \in Observer!Views /\ Observer!AfterLog(view).ready = view.ready
         /\ Observer!AfterLog(view).terminals = view.terminals
<1>1. project.beats \in BOOLEAN /\ Len(project.log) \in Nat /\ view.alert \in BOOLEAN /\ view.down \in BOOLEAN
  BY DEF Observer!ObserverTypeOK, Observer!Projects, Observer!Views
<1> DEFINE alert == IF view.logReady /\ Observer!Lines(view) # <<>> THEN project.log[Len(project.log)] = "failed"
                    ELSE view.alert /\ ~(view.logReady /\ Observer!Shrank(view) /\ version = 2)
           down  == IF version = 1 THEN ~project.beats ELSE view.down
<1>2. alert \in BOOLEAN BY <1>1
<1>3. down \in BOOLEAN BY <1>1
<1>4. Observer!AfterLog(view) = [view EXCEPT !.logReady = TRUE, !.offset = Len(project.log), !.alert = alert,
        !.down = down]
  BY Zenon DEF Observer!AfterLog
<1> HIDE DEF alert, down
<1> QED BY <1>1, <1>2, <1>3, <1>4 DEF Observer!Views

LEMMA OfLedgerIsAView ==
  ASSUME Observer!ObserverTypeOK, NEW view \in Observer!Views
  PROVE  Observer!OfLedger(view).view \in Observer!Views
<1>1. CASE project.readable BY <1>1, BaselineIsAView DEF Observer!OfLedger
<1>2. CASE ~project.readable
  <2>1. [view EXCEPT !.healthy = FALSE] \in Observer!Views BY DEF Observer!Views
  <2> DEFINE seen == [view EXCEPT !.healthy = FALSE]
  <2>2. Observer!OfLedger(view).view = seen BY <1>2 DEF Observer!OfLedger
  <2> QED BY <2>1, <2>2
<1> QED BY <1>1, <1>2

\* The queue is only ever saved with as many entries as it may hold.
LEMMA OutboxStepKeeps ==
  ASSUME Observer!ObserverTypeOK, Observer!OutboxFits, [Observer!ObserverNext]_observerVars
  PROVE  Observer!OutboxFits'
<1> USE DEF Observer!OutboxFits
<1>1. observer \in [view : Observer!Views, outbox : SUBSET Observer!Notices, tried : SUBSET Observer!Notices]
        /\ MAX_OUTBOX \in Nat
      /\ IsFiniteSet(observer.outbox) /\ Cardinality(observer.outbox) =< MAX_OUTBOX
  BY HermesAssumption, ObserverCountsAgree DEF Observer!ObserverTypeOK, Observer!ObserverBounds
<1>2. observer'.outbox = observer.outbox => Observer!OutboxFits' OBVIOUS
<1>3. ASSUME NEW key \in observer.outbox, observer' = [observer EXCEPT !.outbox = @ \ {key}, !.tried = @ \ {key}]
      PROVE  Observer!OutboxFits'
  <2>1. observer'.outbox = observer.outbox \ {key} BY <1>1, <1>3
  <2>2. IsFiniteSet(observer.outbox \ {key}) /\ Cardinality(observer.outbox \ {key}) =< Cardinality(observer.outbox)
    BY <1>1, FS_Subset
  <2>3. Cardinality(observer.outbox \ {key}) \in Nat /\ Cardinality(observer.outbox) \in Nat
    BY <1>1, <2>2, FS_CardinalityType
  <2> QED BY <1>1, <2>1, <2>2, <2>3, ObserverCountsAgree
<1>4. CASE Observer!Observes
  <2> DEFINE ledger     == Observer!OfLedger(observer.view)
             controller == Observer!OfController(ledger.view)
             first      == observer.outbox \union ledger.news
             all        == first \union controller.news
             upTo(line) == first \union {n \in controller.news : n.of =< line}
  <2>1. CASE UNCHANGED observer BY <1>2, <2>1
  <2>2. CASE ~UNCHANGED observer
    <3>1. PICK line \in 0..Observer!Len(project.log) :
            /\ Observer!Cardinality(upTo(line)) =< MAX_OUTBOX
            /\ observer' = Observer!Kept([controller.view EXCEPT !.alert = @ \/ upTo(line) # all], upTo(line))
      BY <1>4, <2>2 DEF Observer!Observes, Observer!Dies
    <3>2. observer.view \in Observer!Views /\ ledger.view \in Observer!Views BY <1>1, OfLedgerIsAView
    <3>3. IsFiniteSet(ledger.news)
      <4>1. \A S : IsFiniteSet({n \in {S} : observer.view.healthy}) BY FS_EmptySet, FS_Singleton, FS_Subset
      <4> QED BY <3>2, <4>1, NewsAreFinite DEF Observer!OfLedger
    <3>4. IsFiniteSet(controller.news)
      <4>1. controller.news = Observer!LogNews(ledger.view)
                                \union (IF version = 1 THEN Observer!HeartbeatNews(ledger.view) ELSE {})
        BY DEF Observer!OfController
      <4> HIDE DEF controller, ledger
      <4>2. IsFiniteSet(IF version = 1 THEN Observer!HeartbeatNews(ledger.view) ELSE {})
        BY <3>2, NewsAreFinite, FS_EmptySet
      <4> QED BY <3>2, <4>1, <4>2, NewsAreFinite, FS_Union
    <3>5. IsFiniteSet(first) /\ IsFiniteSet(all) BY <1>1, <3>3, <3>4, FS_Union
    <3>6. observer'.outbox = upTo(line) BY <1>1, <3>1 DEF Observer!Kept
    <3>7. upTo(line) \subseteq all OBVIOUS
    <3> HIDE DEF upTo, all
    <3> QED BY <3>1, <3>5, <3>6, <3>7, FS_Subset, ObserverCountsAgree
  <2> QED BY <2>1, <2>2
<1>5. CASE \E key \in observer.outbox : Observer!Withdraws(key) \/ Observer!Sends(key)
  BY <1>3, <1>5 DEF Observer!Withdraws, Observer!Sends, Observer!Sent
<1>6. CASE Observer!ProjectMoves \/ Observer!ObserverCrashes \/ Observer!Flushed \/ UNCHANGED observerVars
  BY <1>2, <1>6 DEF Observer!ProjectMoves, Observer!ObserverCrashes, Observer!Flushed, Observer!Dies, observerVars
<1>7. CASE \E key \in observer.outbox : Observer!SendsAndDies(key) \/ Observer!FailsToSend(key)
        \/ Observer!FlushThrows(key)
  BY <1>1, <1>2, <1>7 DEF Observer!SendsAndDies, Observer!FailsToSend, Observer!FlushThrows, Observer!Dies
<1> QED BY <1>4, <1>5, <1>6, <1>7 DEF Observer!ObserverNext, Observer!ObserverActs

LEMMA ObserverInitially == Observer!ObserverInit => Observer!ObserverInv
<1> SUFFICES ASSUME Observer!ObserverInit PROVE Observer!ObserverInv OBVIOUS
<1> USE DEF Observer!ObserverInit
<1>1. MaxJobs \in Nat /\ 0 \in 0..MaxJobs /\ MaxJobs \in 0..MaxJobs BY HermesAssumption DEF Observer!ObserverBounds
<1>2. project \in Observer!Projects BY <1>1 DEF Observer!Projects, Observer!NoJob, Observer!Jobs, Observer!JobStates
<1>3. Observer!Blank.view \in Observer!Views BY <1>1 DEF Observer!Blank, Observer!Views
<1>4. observer \in [view : Observer!Views, outbox : SUBSET Observer!Notices, tried : SUBSET Observer!Notices]
  BY <1>3 DEF Observer!Blank
<1>5. Observer!ObserverTypeOK BY <1>1, <1>2, <1>4 DEF Observer!ObserverTypeOK
<1>6. Observer!ObserverFollows BY DEF Observer!ObserverFollows, Observer!Blank, Observer!NoJob
<1>7. Observer!NothingForgotten BY DEF Observer!NothingForgotten, Observer!Blank
<1>8. Observer!OutboxFits
  <2>1. observer.outbox = {} /\ MAX_OUTBOX \in Nat BY HermesAssumption DEF Observer!Blank, Observer!ObserverBounds
  <2> QED BY <2>1, FS_EmptySet, ObserverCountsAgree DEF Observer!OutboxFits
<1> QED BY <1>5, <1>6, <1>7, <1>8 DEF Observer!ObserverInv

\* The invariant but for the size of the queue, which has a lemma of its own.
SeenIsKept == Observer!ObserverTypeOK /\ Observer!ObserverFollows /\ Observer!NothingForgotten

\* The project moves on: more Jobs may end, none comes back.
LEMMA ProjectMovesKeeps ==
  ASSUME Observer!ObserverInv, Observer!ProjectMoves
  PROVE  SeenIsKept'
<1> USE DEF Observer!ObserverInv, SeenIsKept
<1>1. /\ project \in Observer!Projects /\ MaxJobs \in Nat /\ UNCHANGED <<version, observer, cycle, chat, since>>
      /\ observer.view \in Observer!Views
  BY HermesAssumption DEF Observer!ObserverTypeOK, Observer!ProjectMoves, Observer!ObserverBounds
<1>2. /\ project.job \in Observer!Jobs /\ project.terminals \in 0..MaxJobs /\ project.incidents \in Nat
         /\ project.faults \in Nat
      /\ project.log \in Seq({"ok", "failed"}) /\ observer.view.terminals \in 0..MaxJobs
  BY <1>1 DEF Observer!Projects, Observer!Views
<1>3. /\ project.job.state # "none" => project.terminals < MaxJobs
      /\ project.job.state = "none" => project.job = Observer!NoJob
  BY DEF Observer!ObserverFollows
<1> USE DEF Observer!Job, Observer!Saves, Observer!Fails
<1>4. ASSUME NEW job \in Observer!Jobs, project' = [project EXCEPT !.job = job], project.terminals < MaxJobs,
        job.state # "none"
      PROVE  /\ project' \in Observer!Projects /\ project.terminals =< project'.terminals
             /\ project'.job.state # "none" => project'.terminals < MaxJobs
             /\ project'.job.state = "none" => project'.job = Observer!NoJob
  BY <1>1, <1>4 DEF Observer!Projects
<1>5. /\ project' \in Observer!Projects /\ project.terminals =< project'.terminals
      /\ project'.job.state # "none" => project'.terminals < MaxJobs
      /\ project'.job.state = "none" => project'.job = Observer!NoJob
  <2>1. CASE Observer!SelectsJob
    <3>1. [Observer!NoJob EXCEPT !.id = project.terminals + 1, !.state = "running"] \in Observer!Jobs
      <4>1. project.terminals + 1 \in Nat BY <1>1, <1>2
      <4> QED BY <4>1 DEF Observer!NoJob, Observer!Jobs, Observer!JobStates
    <3>2. [Observer!NoJob EXCEPT !.id = project.terminals + 1, !.state = "running"].state = "running"
      BY DEF Observer!NoJob
    <3> QED BY <1>4, <2>1, <3>1, <3>2 DEF Observer!SelectsJob
  <2>2. CASE Observer!Blocks
    <3> DEFINE job == [project.job EXCEPT !.state = "blocked", !.incident = project.incidents + 1]
    <3>1. project.incidents + 1 \in Nat BY <1>2
    <3>2. job \in Observer!Jobs /\ job.state = "blocked" BY <1>2, <3>1 DEF Observer!Jobs, Observer!JobStates
    <3>3. project' = [project EXCEPT !.incidents = project.incidents + 1, !.job = job]
      BY <1>1, <2>2 DEF Observer!Blocks, Observer!Projects
    <3>4. project.terminals < MaxJobs BY <1>3, <2>2 DEF Observer!Blocks
    <3> HIDE DEF job
    <3>5. project' \in Observer!Projects /\ project'.job = job /\ project'.terminals = project.terminals
      BY <1>1, <3>1, <3>2, <3>3 DEF Observer!Projects
    <3> QED BY <1>2, <3>2, <3>4, <3>5
  <2>3. CASE Observer!Advises
    <3>1. PICK advice \in {"retry",
            "hold"} : project' = [project EXCEPT !.job = [project.job EXCEPT !.advice = advice]]
      BY <2>3 DEF Observer!Advises
    <3>2. [project.job EXCEPT !.advice = advice] \in Observer!Jobs
            /\ [project.job EXCEPT !.advice = advice].state = "blocked"
      BY <1>2, <2>3 DEF Observer!Jobs, Observer!Advises
    <3> QED BY <1>3, <1>4, <2>3, <3>1, <3>2 DEF Observer!Advises
  <2>4. CASE Observer!RecoversByRule
    <3>1. PICK advice \in {"retry", "none"} :
            project' = [project EXCEPT !.job =
                          [project.job EXCEPT !.state = "recovery_approved", !.by = "rule", !.advice = advice,
                            !.recoveries = @ + 1]]
      BY <2>4 DEF Observer!RecoversByRule
    <3> DEFINE job == [project.job EXCEPT !.state = "recovery_approved", !.by = "rule", !.advice = advice,
          !.recoveries = @ + 1]
    <3>2. job \in Observer!Jobs /\ job.state = "recovery_approved"
      <4>1. project.job.recoveries + 1 \in Nat BY <1>2 DEF Observer!Jobs
      <4>2. job = [project.job EXCEPT !.state = "recovery_approved", !.by = "rule", !.advice = advice,
                                      !.recoveries = project.job.recoveries + 1]
        BY <1>2 DEF Observer!Jobs
      <4> QED BY <1>2, <4>1, <4>2 DEF Observer!Jobs, Observer!JobStates
    <3>3. project.terminals < MaxJobs /\ project' = [project EXCEPT !.job = job]
      BY <1>3, <2>4, <3>1 DEF Observer!RecoversByRule
    <3> HIDE DEF job
    <3> QED BY <1>4, <3>2, <3>3
  <2>5. CASE Observer!OperatorApproves
    <3>1. [project.job EXCEPT !.state = "recovery_approved", !.by = "operator"] \in Observer!Jobs
          /\ [project.job EXCEPT !.state = "recovery_approved", !.by = "operator"].state = "recovery_approved"
      BY <1>2 DEF Observer!Jobs, Observer!JobStates
    <3> QED BY <1>3, <1>4, <2>5, <3>1 DEF Observer!OperatorApproves
  <2>6. CASE Observer!StartsRecovery
    <3> DEFINE job == [Observer!NoJob EXCEPT !.id = project.job.id, !.state = "running",
          !.recoveries = project.job.recoveries]
    <3>1. job \in Observer!Jobs /\ job.state = "running" BY <1>2 DEF Observer!NoJob, Observer!Jobs, Observer!JobStates
    <3>2. project.terminals < MaxJobs /\ project' = [project EXCEPT !.job = job]
      BY <1>3, <2>6 DEF Observer!StartsRecovery
    <3> HIDE DEF job
    <3> QED BY <1>4, <3>1, <3>2
  <2>7. CASE Observer!Finishes
    <3>1. project' = [project EXCEPT !.job = Observer!NoJob, !.terminals = @ + 1] /\ project.terminals < MaxJobs
      BY <1>3, <2>7 DEF Observer!Finishes
    <3>2. Observer!NoJob \in Observer!Jobs /\ Observer!NoJob.state = "none"
      BY DEF Observer!NoJob, Observer!Jobs, Observer!JobStates
    <3>3. project.terminals + 1 \in 0..MaxJobs BY <1>1, <1>2, <3>1
    <3>4. project' = [project EXCEPT !.job = Observer!NoJob, !.terminals = project.terminals + 1]
      BY <1>1, <3>1 DEF Observer!Projects
    <3>5. project' \in Observer!Projects /\ project'.job = Observer!NoJob
            /\ project'.terminals = project.terminals + 1
      BY <1>1, <3>2, <3>3, <3>4 DEF Observer!Projects
    <3> QED BY <1>2, <3>2, <3>5
  <2>8. CASE Observer!LedgerBreaks \/ Observer!LedgerMended \/ Observer!Stalls \/ Observer!Beats
    <3>1. project.faults + 1 \in Nat BY <1>2
    <3>2. \/ project' = [project EXCEPT !.readable = FALSE, !.faults = project.faults + 1]
          \/ project' = [project EXCEPT !.readable = TRUE]
          \/ project' = [project EXCEPT !.beats = FALSE, !.faults = project.faults + 1]
          \/ project' = [project EXCEPT !.beats = TRUE]
      BY <1>1, <2>8
         DEF Observer!LedgerBreaks, Observer!LedgerMended, Observer!Stalls, Observer!Beats, Observer!Projects
    <3>3. project' \in Observer!Projects /\ project'.job = project.job /\ project'.terminals = project.terminals
      BY <1>1, <1>2, <3>1, <3>2 DEF Observer!Projects
    <3> QED BY <1>2, <1>3, <3>3
  <2>9. CASE Observer!Logs \/ Observer!LogRotates
    <3>1. PICK log \in Seq({"ok", "failed"}), faults \in Nat : project' = [project EXCEPT !.log = log,
            !.faults = faults]
      <4>1. CASE Observer!Logs
        <5>1. PICK line \in {"ok", "failed"} : project' = [project EXCEPT !.log = Append(@, line)]
          BY <4>1 DEF Observer!Logs
        <5>2. Append(project.log, line) \in Seq({"ok", "failed"}) BY <1>2
        <5>3. project' = [project EXCEPT !.log = Append(@, line), !.faults = project.faults]
          BY <1>1, <5>1 DEF Observer!Projects
        <5> QED BY <1>2, <5>2, <5>3
      <4>2. CASE Observer!LogRotates
        <5>1. project' = [project EXCEPT !.log = <<>>, !.faults = project.faults + 1]
          BY <1>1, <4>2 DEF Observer!LogRotates, Observer!Projects
        <5>2. project.faults + 1 \in Nat /\ <<>> \in Seq({"ok", "failed"}) BY <1>2
        <5> QED BY <5>1, <5>2
      <4> QED BY <2>9, <4>1, <4>2
    <3>2. project' \in Observer!Projects /\ project'.job = project.job /\ project'.terminals = project.terminals
      BY <1>1, <3>1 DEF Observer!Projects
    <3> QED BY <1>2, <1>3, <3>2
  <2> QED BY <2>1, <2>2, <2>3, <2>4, <2>5, <2>6, <2>7, <2>8, <2>9 DEF Observer!ProjectMoves
<1>6. Observer!ObserverTypeOK' BY <1>1, <1>5 DEF Observer!ObserverTypeOK
<1>7. Observer!ObserverFollows'
  <2>1. project'.terminals \in 0..MaxJobs BY <1>5 DEF Observer!Projects
  <2> QED BY <1>1, <1>2, <1>5, <2>1 DEF Observer!ObserverFollows
<1>8. Observer!NothingForgotten' BY <1>1 DEF Observer!NothingForgotten, Observer!Waits, Observer!Told
<1> QED BY <1>6, <1>7, <1>8

\* A flush takes notices from the queue; the end of a Job leaves it for the chat.
LEMMA QueueKeeps ==
  ASSUME Observer!ObserverInv, UNCHANGED <<version, project, since>>, cycle' \in {"flush", "observe", "report"},
         observer' \in [view : Observer!Views, outbox : SUBSET Observer!Notices, tried : SUBSET Observer!Notices],
         observer'.view = observer.view, observer'.outbox \subseteq observer.outbox,
         chat \subseteq chat', chat' \subseteq chat \union observer.outbox,
         \A key \in observer.outbox \ observer'.outbox : key.what \in {"terminal", "window_exceeded"} => key \in chat'
  PROVE  SeenIsKept' /\ Observer!NothingComesBack
<1> USE DEF Observer!ObserverInv, SeenIsKept
<1>1. Observer!ObserverTypeOK' BY DEF Observer!ObserverTypeOK
<1>2. Observer!ObserverFollows' BY DEF Observer!ObserverFollows
<1>3. Observer!NothingForgotten'
  <2>1. ASSUME NEW t \in (since + 1)..observer.view.terminals, NEW key \in Observer!EndOf(t)
        PROVE  key.what \in {"terminal", "window_exceeded"}
    BY DEF Observer!EndOf, Observer!Notice
  <2> QED BY <2>1 DEF Observer!NothingForgotten, Observer!Waits, Observer!Told, Observer!EndOf, Observer!Notice
<1>4. Observer!NothingComesBack BY DEF Observer!NothingComesBack, Observer!Waits, Observer!ObserverFollows
<1> QED BY <1>1, <1>2, <1>3, <1>4

\* What is not the end of a Job.
Plain == {n \in Observer!Notices : n.what # "terminal"}

LEMMA NumbersMultiply == \A m, n \in Nat : m * n \in Nat
  OBVIOUS

\* The notices the Observer makes of a Job, of the heartbeat and of the log.
LEMMA NewsArePlain ==
  ASSUME Observer!ObserverInv, NEW view \in Observer!Views, NEW offset \in Nat, NEW i \in Nat, NEW a \in Nat
  PROVE  /\ Observer!Recoveries(project.job, offset) \subseteq Plain
            /\ Observer!FirstRecoveries(project.job) \subseteq Plain
         /\ Observer!Situation(project.job, i, a) \subseteq Plain /\ Observer!Mended(view) \subseteq Plain
         /\ Observer!HeartbeatNews(view) \subseteq Plain /\ Observer!LogNews(view) \subseteq Plain
<1>1. /\ project \in Observer!Projects /\ project.job \in Observer!Jobs /\ project.log \in Seq({"ok", "failed"})
         /\ MaxIncidents \in Nat
      /\ project.job.id \in Nat /\ project.job.recoveries \in Nat /\ project.job.incident \in Nat
         /\ view.offset \in Nat
  BY HermesAssumption DEF Observer!ObserverInv, Observer!ObserverTypeOK, Observer!Projects, Observer!Jobs,
     Observer!ObserverBounds, Observer!Views
<1>2. \A what \in {"job", "window_exceeded", "incident", "analysis", "approval", "recovery", "failure", "log_reset",
                   "ledger_unavailable", "ledger_restored", "controller_down", "controller_up"}, of \in Nat :
        Observer!Notice(what, of) \in Plain
  BY DEF Observer!Notice, Observer!Notices, Plain
<1> HIDE DEF Plain
<1>3. \A n \in Nat : (MaxIncidents + 1) * project.job.id + n \in Nat
  <2>1. MaxIncidents + 1 \in Nat BY <1>1
  <2>2. (MaxIncidents + 1) * project.job.id \in Nat BY <1>1, <2>1, NumbersMultiply
  <2> DEFINE k == (MaxIncidents + 1) * project.job.id
  <2>3. k \in Nat BY <2>2
  <2> HIDE DEF k
  <2>4. \A n \in Nat : k + n \in Nat BY <2>3
  <2> QED BY <2>4 DEF k
<1>4. \A from \in Nat : {Observer!Notice("recovery",
        (MaxIncidents + 1) * project.job.id + n) : n \in from..project.job.recoveries} \subseteq Plain
  <2>1. \A from \in Nat : \A n \in from..project.job.recoveries : n \in Nat BY <1>1
  <2> QED BY <1>2, <1>3, <2>1
<1>5. Observer!Recoveries(project.job, offset) \subseteq Plain
  <2>1. offset + 1 \in Nat OBVIOUS
  <2> QED BY <1>4, <2>1 DEF Observer!Recoveries
<1>6. Observer!FirstRecoveries(project.job) \subseteq Plain
  <2>1. 0 + 1 \in Nat /\ (project.job.recoveries - 1) + 1 \in Nat BY <1>1
  <2>2. Observer!Recoveries(project.job, 0) \subseteq Plain
          /\ Observer!Recoveries(project.job, project.job.recoveries - 1) \subseteq Plain
    BY <1>4, <2>1 DEF Observer!Recoveries
  <2> QED BY <2>2 DEF Observer!FirstRecoveries
<1>7. Observer!Situation(project.job, i, a) \subseteq Plain BY <1>1, <1>2 DEF Observer!Situation
<1>8. Observer!Mended(view) \subseteq Plain /\ Observer!HeartbeatNews(view) \subseteq Plain
  BY <1>2 DEF Observer!Mended, Observer!HeartbeatNews
<1>9. Observer!LogNews(view) \subseteq Plain
  <2>1. \A l \in DOMAIN Observer!Lines(view) : l \in Nat /\ view.offset + l \in Nat BY <1>1 DEF Observer!Lines
  <2> QED BY <1>2, <2>1 DEF Observer!LogNews
<1> QED BY <1>5, <1>6, <1>7, <1>8, <1>9

\* The end of each Job the Observer has not seen is in the news of a ledger it has seen before.
LEMMA EndsAreNews ==
  ASSUME Observer!ObserverInv, NEW view \in Observer!Views, view.ready, view.terminals =< project.terminals
  PROVE  /\ \A n \in Observer!Ended(view) : n \in Observer!Notices /\ (n.what = "terminal"
            => n.of \in (view.terminals + 1)..project.terminals)
         /\ \A t \in (view.terminals + 1)..project.terminals :
                \E key \in Observer!EndOf(t) : key \in Observer!Ended(view)
<1>1. project.terminals \in 0..MaxJobs /\ MaxJobs \in Nat /\ view.terminals \in Nat
  BY HermesAssumption
     DEF Observer!ObserverInv, Observer!ObserverTypeOK, Observer!Projects, Observer!ObserverBounds, Observer!Views
<1>2. CASE version = 2 /\ view.terminals < project.terminals - TerminalWindow
  <2>1. Observer!Ended(view) = {Observer!Notice("window_exceeded", project.terminals)} BY <1>2 DEF Observer!Ended
  <2>2. Observer!Notice("window_exceeded", project.terminals) \in Observer!Notices
        /\ Observer!Notice("window_exceeded", project.terminals).what # "terminal"
    BY <1>1 DEF Observer!Notice, Observer!Notices
  <2>3. ASSUME NEW t \in (view.terminals + 1)..project.terminals
        PROVE  Observer!Notice("window_exceeded", project.terminals) \in Observer!EndOf(t)
    <3>1. project.terminals \in t..MaxJobs BY <1>1
    <3> QED BY <3>1 DEF Observer!EndOf
  <2> QED BY <2>1, <2>2, <2>3
<1>3. CASE ~(version = 2 /\ view.terminals < project.terminals - TerminalWindow)
  <2>1. Observer!Ended(view) = {Observer!Notice("terminal", t) : t \in (view.terminals + 1)..project.terminals}
    BY <1>3 DEF Observer!Ended
  <2>2. ASSUME NEW t \in (view.terminals + 1)..project.terminals
        PROVE  Observer!Notice("terminal", t) \in Observer!Notices /\ Observer!Notice("terminal", t).of = t
    <3>1. t \in Nat BY <1>1
    <3> QED BY <3>1 DEF Observer!Notice, Observer!Notices
  <2>3. \A t : Observer!Notice("terminal", t) \in Observer!EndOf(t) BY DEF Observer!EndOf
  <2> QED BY <2>1, <2>2, <2>3
<1> QED BY <1>2, <1>3

LEMMA ObservesKeeps ==
  ASSUME Observer!ObserverInv, Observer!Observes
  PROVE  SeenIsKept' /\ Observer!NothingComesBack
<1> USE DEF Observer!ObserverInv, SeenIsKept
<1> DEFINE view       == observer.view
           ledger     == Observer!OfLedger(view)
           controller == Observer!OfController(ledger.view)
           first      == observer.outbox \union ledger.news
           all        == first \union controller.news
           upTo(line) == first \union {n \in controller.news : n.of =< line}
<1>1. /\ UNCHANGED <<version, project, chat>> /\ cycle' \in {"flush", "report"}
      /\ \/ UNCHANGED <<observer, since>>
         \/ /\ \E line \in 0..Observer!Len(project.log) :
                  observer' = Observer!Kept([controller.view EXCEPT !.alert = @ \/ upTo(line) # all], upTo(line))
            /\ since' = IF project.readable /\ ~view.ready THEN project.terminals ELSE since
  BY DEF Observer!Observes, Observer!Fixed, Observer!Dies, Observer!Enters
<1>2. /\ view \in Observer!Views /\ project \in Observer!Projects /\ project.job \in Observer!Jobs
         /\ project.terminals \in 0..MaxJobs
      /\ MaxJobs \in Nat
         /\ observer \in [view : Observer!Views, outbox : SUBSET Observer!Notices, tried : SUBSET Observer!Notices]
      /\ view.terminals =< project.terminals /\ view.terminals \in 0..MaxJobs /\ since \in 0..MaxJobs
         /\ view.ready \in BOOLEAN
      /\ project.log \in Seq({"ok", "failed"})
  BY HermesAssumption DEF Observer!ObserverTypeOK, Observer!Projects, Observer!ObserverBounds,
     Observer!ObserverFollows, Observer!Views
<1>3. CASE UNCHANGED <<observer, since>>
  BY <1>1, <1>3, QueueKeeps DEF Observer!ObserverTypeOK
<1>4. ledger.view \in Observer!Views /\ (view.ready => ledger.view.ready) /\ (project.readable => ledger.view.ready)
      /\ ledger.view.terminals = (IF project.readable THEN project.terminals ELSE view.terminals)
      /\ (~project.readable => ledger.view.ready = view.ready)
  <2>1. CASE project.readable
    <3>1. ledger.view = Observer!Baseline(view) BY <2>1 DEF Observer!OfLedger
    <3> QED BY <1>2, <2>1, <3>1, BaselineIsAView
  <2>2. CASE ~project.readable
    <3>1. ledger.view = [view EXCEPT !.healthy = FALSE] BY <2>2 DEF Observer!OfLedger
    <3> DEFINE seen == [view EXCEPT !.healthy = FALSE]
    <3>2. seen \in Observer!Views /\ seen.ready = view.ready /\ seen.terminals = view.terminals
      BY <1>2 DEF Observer!Views
    <3> HIDE DEF seen
    <3>3. ledger.view = seen BY <3>1 DEF seen
    <3> QED BY <2>2, <3>2, <3>3
  <2> QED BY <2>1, <2>2
<1>5. ledger.news \subseteq Observer!Notices
      /\ (\A n \in ledger.news : n.what = "terminal" =>
            project.readable /\ view.ready /\ n.of \in (view.terminals + 1)..project.terminals)
      /\ (project.readable /\ view.ready => Observer!Ended(view) \subseteq ledger.news)
  <2>1. Plain \subseteq Observer!Notices /\ \A n \in Plain : n.what # "terminal" BY DEF Plain
  <2>2. CASE project.readable
    <3>1. ledger.news = Observer!LedgerNews(view) BY <2>2 DEF Observer!OfLedger
    <3>2. Observer!FirstNews \subseteq Plain
      BY <1>2, NewsArePlain DEF Observer!FirstNews, Observer!FirstOf, Observer!Job
    <3>3. Observer!JobNews(view) \subseteq Plain
      <4>1. Observer!Notice("job", project.job.id) \in Plain
        BY <1>2 DEF Observer!Notice, Observer!Notices, Plain, Observer!Jobs
      <4>2. view.recoveries \in Nat /\ view.incident \in Nat /\ view.analysis \in Nat BY <1>2 DEF Observer!Views
      <4>3. /\ Observer!Recoveries(project.job, view.recoveries) \subseteq Plain
               /\ Observer!FirstRecoveries(project.job) \subseteq Plain
            /\ Observer!Situation(project.job, view.incident, view.analysis) \subseteq Plain
               /\ Observer!Situation(project.job, 0, 0) \subseteq Plain
        BY <1>2, <4>2, NewsArePlain
      <4> QED BY <4>1, <4>3 DEF Observer!JobNews, Observer!FirstOf, Observer!Job
    <3>4. Observer!Mended(view) \subseteq Plain /\ Observer!HeartbeatNews(view) \subseteq Plain BY <1>2, NewsArePlain
    <3>5. CASE view.ready
      <4>1. \A n \in Observer!Ended(view) : n \in Observer!Notices /\ (n.what = "terminal"
              => n.of \in (view.terminals + 1)..project.terminals)
        BY <1>2, <3>5, EndsAreNews
      <4> HIDE DEF Plain
      <4> QED BY <2>1, <2>2, <3>1, <3>3, <3>4, <3>5, <4>1 DEF Observer!LedgerNews
    <3>6. CASE ~view.ready BY <2>1, <3>1, <3>2, <3>4, <3>6 DEF Observer!LedgerNews
    <3> QED BY <3>5, <3>6
  <2>3. CASE ~project.readable BY <2>3 DEF Observer!OfLedger, Observer!Notice, Observer!Notices
  <2> QED BY <2>2, <2>3
<1> HIDE DEF ledger
<1>6. controller.view \in Observer!Views /\ controller.view.ready = ledger.view.ready
        /\ controller.view.terminals = ledger.view.terminals
  <2>1. controller.view = Observer!AfterLog(ledger.view) BY DEF Observer!OfController
  <2> QED BY <1>4, <2>1, AfterLogIsAView
<1>7. controller.news \subseteq Plain BY <1>4, NewsArePlain DEF Observer!OfController
<1>8. controller.news \subseteq Observer!Notices /\ \A n \in controller.news : n.what # "terminal" BY <1>7 DEF Plain
<1> HIDE DEF controller
<1>9. ASSUME NEW outbox, first \subseteq outbox, outbox \subseteq all, NEW seen \in Observer!Views,
             seen.ready = ledger.view.ready, seen.terminals = ledger.view.terminals,
             observer' = Observer!Kept(seen, outbox),
             since' = IF project.readable /\ ~view.ready THEN project.terminals ELSE since
      PROVE  SeenIsKept' /\ Observer!NothingComesBack
  <2>1. outbox \subseteq Observer!Notices /\ observer.outbox \union ledger.news \subseteq outbox
        /\ outbox \subseteq observer.outbox \union ledger.news \union controller.news
    BY <1>2, <1>5, <1>8, <1>9
  <2>2. observer' \in [view : Observer!Views, outbox : SUBSET Observer!Notices, tried : SUBSET Observer!Notices]
        /\ observer'.view = seen /\ observer'.outbox = outbox
    BY <1>2, <1>9, <2>1 DEF Observer!Kept
  <2> HIDE DEF view, first, all
  <2>3. Observer!ObserverTypeOK' BY <1>1, <1>2, <1>9, <2>2 DEF Observer!ObserverTypeOK
  <2>4. view.terminals =< seen.terminals /\ seen.terminals =< project.terminals
        /\ seen.terminals \in 0..MaxJobs
    <3>1. CASE project.readable BY <1>2, <1>4, <1>9, <3>1
    <3>2. CASE ~project.readable BY <1>2, <1>4, <1>9, <3>2
    <3> QED BY <3>1, <3>2
  <2>5. \A key \in observer.outbox \union chat : key.what = "terminal" => view.ready /\ key.of =< view.terminals
          /\ key.of \in Nat
    BY DEF Observer!ObserverFollows, Observer!ObserverTypeOK, view, Observer!Notices
  <2>6. \A key \in outbox \union chat :
          key.what = "terminal" => seen.ready /\ key.of =< seen.terminals
    <3>1. ASSUME NEW key \in ledger.news, key.what = "terminal"
          PROVE  seen.ready /\ key.of =< seen.terminals
      BY <1>2, <1>4, <1>5, <1>9, <3>1
    <3>2. ASSUME NEW key \in observer.outbox \union chat, key.what = "terminal"
          PROVE  seen.ready /\ key.of =< seen.terminals
      BY <1>2, <1>4, <1>9, <2>4, <2>5, <3>2
    <3> QED BY <1>8, <2>1, <3>1, <3>2
  <2>7. Observer!ObserverFollows'
    <3>1. \A key \in (observer.outbox \union chat)' :
            key.what = "terminal" => observer'.view.ready /\ key.of =< observer'.view.terminals
      BY <1>1, <2>2, <2>6
    <3> QED BY <1>1, <2>2, <2>4, <3>1 DEF Observer!ObserverFollows
  <2>8. Observer!NothingForgotten'
    <3>1. SUFFICES ASSUME seen.ready, NEW t \in (since' + 1)..seen.terminals
                   PROVE  \E key \in Observer!EndOf(t) : key \in outbox \/ key \in chat
      BY <1>1, <2>2 DEF Observer!NothingForgotten, Observer!Waits, Observer!Told, Observer!EndOf
    <3>2. view.ready
      <4>1. CASE project.readable
        <5>1. SUFFICES ASSUME ~view.ready PROVE FALSE OBVIOUS
        <5>2. since' = project.terminals /\ seen.terminals = project.terminals
          BY <1>4, <1>9, <4>1, <5>1
        <5> QED BY <1>2, <3>1, <5>2
      <4>2. CASE ~project.readable BY <1>4, <1>9, <3>1, <4>2
      <4> QED BY <4>1, <4>2
    <3>5. since' = since BY <1>9, <3>2
    <3>3. CASE t \in (since + 1)..view.terminals
      BY <2>1, <3>2, <3>3 DEF Observer!NothingForgotten, Observer!Waits, Observer!Told, view
    <3>4. CASE ~(t \in (since + 1)..view.terminals)
      <4>1. project.readable /\ t \in (view.terminals + 1)..project.terminals
        <5>1. t \in (since + 1)..seen.terminals BY <3>1, <3>5
        <5>2. CASE project.readable
          <6>1. seen.terminals = project.terminals BY <1>4, <1>9, <5>2
          <6> QED BY <1>2, <3>4, <5>1, <5>2, <6>1
        <5>3. CASE ~project.readable
          <6>1. seen.terminals = view.terminals BY <1>4, <1>9, <5>3
          <6> QED BY <3>4, <5>1, <6>1
        <5> QED BY <5>2, <5>3
      <4>2. \E key \in Observer!EndOf(t) : key \in Observer!Ended(view) BY <1>2, <3>2, <4>1, EndsAreNews
      <4> QED BY <1>5, <2>1, <3>2, <4>1, <4>2
    <3> QED BY <3>3, <3>4
  <2>9. Observer!NothingComesBack
    <3>1. SUFFICES ASSUME NEW key \in chat, key.what = "terminal", key \in outbox PROVE key \in observer.outbox
      BY <2>2 DEF Observer!NothingComesBack, Observer!Waits
    <3>2. view.ready /\ key.of =< view.terminals /\ key.of \in Nat BY <2>5, <3>1
    <3>3. key \notin ledger.news BY <1>2, <1>5, <3>1, <3>2
    <3> QED BY <1>8, <2>1, <3>1, <3>3
  <2> QED BY <2>3, <2>7, <2>8, <2>9
<1>10. ASSUME NEW line,
              observer' = Observer!Kept([controller.view EXCEPT !.alert = @ \/ upTo(line) # all], upTo(line)),
              since' = IF project.readable /\ ~view.ready THEN project.terminals ELSE since
       PROVE  SeenIsKept' /\ Observer!NothingComesBack
  <2>1. first \subseteq upTo(line) /\ upTo(line) \subseteq all OBVIOUS
  <2> DEFINE alert == controller.view.alert \/ upTo(line) # all
             seen  == [controller.view EXCEPT !.alert = alert]
  <2>2. alert \in BOOLEAN BY <1>6 DEF Observer!Views
  <2>3. observer' = Observer!Kept(seen, upTo(line)) BY <1>10
  <2> HIDE DEF alert, first, all, upTo
  <2>4. seen \in Observer!Views /\ seen.ready = ledger.view.ready /\ seen.terminals = ledger.view.terminals
    BY <1>6, <2>2 DEF Observer!Views
  <2> HIDE DEF seen
  <2> QED BY <1>9, <1>10, <2>1, <2>3, <2>4
<1> QED BY <1>1, <1>3, <1>10

LEMMA FlushKeeps ==
  ASSUME Observer!ObserverInv,
         \/ Observer!Flushed \/ Observer!ObserverCrashes
         \/ \E key \in observer.outbox :
              Observer!Withdraws(key) \/ Observer!Sends(key) \/ Observer!SendsAndDies(key)
                \/ Observer!FailsToSend(key) \/ Observer!FlushThrows(key)
  PROVE  SeenIsKept' /\ Observer!NothingComesBack
<1> USE DEF Observer!ObserverInv, SeenIsKept
<1>1. observer \in [view : Observer!Views, outbox : SUBSET Observer!Notices, tried : SUBSET Observer!Notices]
        /\ cycle \in {"flush", "observe", "report"}
  BY DEF Observer!ObserverTypeOK
<1>2. CASE Observer!Flushed
  BY <1>1, <1>2, QueueKeeps DEF Observer!Flushed, Observer!Enters, Observer!AfterFlush
<1>3. CASE Observer!ObserverCrashes
  BY <1>1, <1>3, QueueKeeps DEF Observer!ObserverCrashes, Observer!Dies, Observer!Enters, Observer!Fixed
<1>4. ASSUME NEW key \in observer.outbox, Observer!Withdraws(key) \/ Observer!Sends(key)
      PROVE  SeenIsKept' /\ Observer!NothingComesBack
  <2>1. UNCHANGED <<version, project, since, cycle>>
          /\ observer' = [observer EXCEPT !.outbox = @ \ {key}, !.tried = @ \ {key}]
    BY <1>4 DEF Observer!Withdraws, Observer!Sends, Observer!Sending, Observer!Sent, Observer!Fixed
  <2>2. observer' \in [view : Observer!Views, outbox : SUBSET Observer!Notices, tried : SUBSET Observer!Notices]
          /\ observer'.view = observer.view
        /\ observer'.outbox = observer.outbox \ {key}
    BY <1>1, <2>1
  <2>3. chat \subseteq chat' /\ chat' \subseteq chat \union {key}
        /\ (key.what \in {"terminal", "window_exceeded"} => key \in chat')
    BY <1>4 DEF Observer!Withdraws, Observer!Sends, Observer!Arrives, Observer!Withdrawn
  <2> QED BY <1>1, <2>1, <2>2, <2>3, QueueKeeps
<1>5. ASSUME NEW key \in observer.outbox, Observer!SendsAndDies(key) \/ Observer!FailsToSend(key)
        \/ Observer!FlushThrows(key)
      PROVE  SeenIsKept' /\ Observer!NothingComesBack
  <2>1. UNCHANGED <<version, project, since>> /\ cycle' \in {"flush", "observe", "report"}
        /\ (observer' = observer \/ observer' = [observer EXCEPT !.tried = @ \union {key}])
    BY <1>5 DEF Observer!SendsAndDies, Observer!FailsToSend, Observer!FlushThrows, Observer!Sending, Observer!Fixed,
       Observer!Enters, Observer!AfterFlush, Observer!Dies
  <2>2. observer' \in [view : Observer!Views, outbox : SUBSET Observer!Notices, tried : SUBSET Observer!Notices]
          /\ observer'.view = observer.view
        /\ observer'.outbox = observer.outbox
    BY <1>1, <2>1
  <2>3. chat \subseteq chat' /\ chat' \subseteq chat \union {key}
    BY <1>5 DEF Observer!SendsAndDies, Observer!FailsToSend, Observer!FlushThrows, Observer!Arrives
  <2> QED BY <1>1, <2>1, <2>2, <2>3, QueueKeeps
<1> QED BY <1>2, <1>3, <1>4, <1>5

LEMMA ObserverStepKeeps ==
  ASSUME Observer!ObserverInv, [Observer!ObserverNext]_observerVars
  PROVE  Observer!ObserverInv' /\ Observer!NothingComesBack
<1>1. SeenIsKept' /\ Observer!NothingComesBack
  <2>1. CASE Observer!ProjectMoves
    <3>1. UNCHANGED <<observer, chat>> BY <2>1 DEF Observer!ProjectMoves
    <3> QED BY <2>1, <3>1, ProjectMovesKeeps DEF Observer!NothingComesBack, Observer!Waits
  <2>2. CASE Observer!ObserverActs \/ Observer!ObserverCrashes
    BY <2>2, FlushKeeps, ObservesKeeps DEF Observer!ObserverActs
  <2>3. CASE UNCHANGED observerVars
    <3>1. UNCHANGED <<version, project, observer, cycle, chat, since>> BY <2>3 DEF observerVars
    <3>2. observer \in [view : Observer!Views, outbox : SUBSET Observer!Notices, tried : SUBSET Observer!Notices]
          /\ cycle \in {"flush", "observe", "report"}
      BY DEF Observer!ObserverInv, Observer!ObserverTypeOK
    <3> QED BY <3>1, <3>2, QueueKeeps
  <2> QED BY <2>1, <2>2, <2>3 DEF Observer!ObserverNext
<1>2. Observer!OutboxFits' BY OutboxStepKeeps DEF Observer!ObserverInv
<1> QED BY <1>1, <1>2 DEF Observer!ObserverInv, SeenIsKept

-----------------------------------------------------------------------------
(* The Observer of the Fleet.                                               *)

LEMMA FleetObserverInitially == Fleet!FleetObserverInit => Fleet!FleetObserverInv
<1> SUFFICES ASSUME Fleet!FleetObserverInit PROVE Fleet!FleetObserverInv OBVIOUS
<1> USE DEF Fleet!FleetObserverInit
<1>1. MaxChanges \in Nat /\ Fleet!Never \in 0..Fleet!Never /\ 0 \in 0..MaxChanges
  BY HermesAssumption DEF Fleet!FleetObserverBounds, Fleet!Never
<1>2. Fleet!FleetObserverTypeOK BY <1>1 DEF Fleet!FleetObserverTypeOK
<1>3. Fleet!CalmIsPast BY DEF Fleet!CalmIsPast
<1>4. Fleet!AlarmsAreTold BY DEF Fleet!AlarmsAreTold, Fleet!FleetAlarms, Fleet!Alarms, Fleet!Alarming, Fleet!Troubles
<1> QED BY <1>2, <1>3, <1>4 DEF Fleet!FleetObserverInv

\* What the invariant says of the fields.
FleetFacts ==
    /\ MaxChanges \in Nat /\ fleet.changes \in 0..MaxChanges /\ fleet.phase \in Fleet!Phases
    /\ fleet.troubles \subseteq Fleet!Troubles /\ watcher.phase \in Fleet!Phases \union {"none"}
    /\ watcher.ready \in BOOLEAN /\ watcher.troubles \subseteq Fleet!Troubles /\ watcher.outbox \subseteq Fleet!News
    /\ heard \subseteq Fleet!News /\ calm \in [Fleet!Alarms -> 0..Fleet!Never]

LEMMA FleetFieldsAreTyped == Fleet!FleetObserverInv => FleetFacts
<1> SUFFICES ASSUME Fleet!FleetObserverInv PROVE FleetFacts OBVIOUS
<1> QED
  BY HermesAssumption DEF Fleet!FleetObserverInv, Fleet!FleetObserverTypeOK, Fleet!FleetObserverBounds, FleetFacts

\* A change of the Fleet only makes what the Observer keeps older.
LEMMA FleetChangesKeeps ==
  ASSUME Fleet!FleetObserverInv, Fleet!FleetChanges
  PROVE  Fleet!FleetObserverInv'
<1>1. FleetFacts BY FleetFieldsAreTyped
<1>2. /\ fleet \in [readable : BOOLEAN, named : BOOLEAN, phase : Fleet!Phases, troubles : SUBSET Fleet!Troubles,
         changes : 0..MaxChanges]
      /\ UNCHANGED <<watcher, watch, heard, calm>> /\ fleet.changes < MaxChanges
  BY DEF Fleet!FleetObserverInv, Fleet!FleetObserverTypeOK, Fleet!FleetChanges
<1>3. fleet.changes + 1 \in 0..MaxChanges BY <1>1, <1>2 DEF FleetFacts
<1>4. ASSUME NEW next \in [readable : BOOLEAN, named : BOOLEAN, phase : Fleet!Phases,
        troubles : SUBSET Fleet!Troubles,
        changes : 0..MaxChanges],
             next.changes = fleet.changes, fleet' = [next EXCEPT !.changes = @ + 1]
      PROVE  Fleet!FleetObserverInv'
  <2>1. fleet' = [next EXCEPT !.changes = fleet.changes + 1] BY <1>4
  <2>2. /\ fleet' \in [readable : BOOLEAN, named : BOOLEAN, phase : Fleet!Phases, troubles : SUBSET Fleet!Troubles,
           changes : 0..MaxChanges]
        /\ fleet'.changes = fleet.changes + 1
    BY <1>3, <1>4, <2>1
  <2>3. Fleet!FleetObserverTypeOK' BY <1>2, <2>2 DEF Fleet!FleetObserverInv, Fleet!FleetObserverTypeOK
  <2>4. \A a \in Fleet!Alarms : calm[a] # Fleet!Never => calm[a] =< fleet.changes + 1
    <3>1. \A a \in Fleet!Alarms : calm[a] \in Int BY <1>1 DEF FleetFacts
    <3>2. fleet.changes \in Int BY <1>1 DEF FleetFacts
    <3> QED BY <3>1, <3>2 DEF Fleet!FleetObserverInv, Fleet!CalmIsPast
  <2>5. Fleet!CalmIsPast' BY <1>2, <2>2, <2>4 DEF Fleet!FleetObserverInv, Fleet!CalmIsPast, Fleet!Never
  <2>6. Fleet!AlarmsAreTold' BY <1>2 DEF Fleet!FleetObserverInv, Fleet!AlarmsAreTold, Fleet!FleetAlarms, Fleet!Never
  <2> QED BY <2>3, <2>5, <2>6 DEF Fleet!FleetObserverInv
<1> DEFINE Fleets == [readable : BOOLEAN, named : BOOLEAN, phase : Fleet!Phases, troubles : SUBSET Fleet!Troubles,
      changes : 0..MaxChanges]
<1>5. [fleet EXCEPT !.readable = ~fleet.readable] \in Fleets
      /\ [fleet EXCEPT !.readable = ~fleet.readable].changes = fleet.changes
      /\ [fleet EXCEPT !.named = ~fleet.named] \in Fleets
      /\ [fleet EXCEPT !.named = ~fleet.named].changes = fleet.changes
  BY <1>2
<1>6. ASSUME NEW phase \in Fleet!Phases
      PROVE  [fleet EXCEPT !.phase = phase] \in Fleets /\ [fleet EXCEPT !.phase = phase].changes = fleet.changes
  BY <1>2
<1>7. ASSUME NEW trouble \in Fleet!Troubles
      PROVE  [fleet EXCEPT !.troubles = Fleet!Flips(fleet.troubles, trouble)] \in Fleets
             /\ [fleet EXCEPT !.troubles = Fleet!Flips(fleet.troubles, trouble)].changes = fleet.changes
  <2>1. Fleet!Flips(fleet.troubles, trouble) \in SUBSET Fleet!Troubles BY <1>1 DEF FleetFacts, Fleet!Flips
  <2> DEFINE flipped == Fleet!Flips(fleet.troubles, trouble)
  <2>2. flipped \in SUBSET Fleet!Troubles BY <2>1
  <2> HIDE DEF flipped
  <2>3. [fleet EXCEPT !.troubles = flipped] \in Fleets /\ [fleet EXCEPT !.troubles = flipped].changes = fleet.changes
    BY <1>2, <2>2
  <2> QED BY <2>3 DEF flipped
<1>8. PICK next \in {[fleet EXCEPT !.readable = ~fleet.readable], [fleet EXCEPT !.named = ~fleet.named]}
                      \union {[fleet EXCEPT !.phase = phase] : phase \in Fleet!Phases \ {fleet.phase}}
                      \union {[fleet EXCEPT !.troubles = Fleet!Flips(fleet.troubles,
                        trouble)] : trouble \in Fleet!Troubles} :
        fleet' = [next EXCEPT !.changes = @ + 1]
  BY DEF Fleet!FleetChanges
<1>9. next \in Fleets /\ next.changes = fleet.changes
  <2> HIDE DEF Fleets
  <2> QED BY <1>5, <1>6, <1>7, <1>8
<1> QED BY <1>4, <1>8, <1>9

\* What is delivered was in the queue, and what leaves the queue is delivered.
LEMMA DeliveriesKeep ==
  ASSUME Fleet!FleetObserverInv, UNCHANGED <<fleet, calm>>, watch' \in {"flush", "observe", "report"},
         watcher' \in [ready : BOOLEAN, phase : Fleet!Phases \union {"none"}, troubles : SUBSET Fleet!Troubles,
           outbox : SUBSET Fleet!News],
         watcher'.ready = watcher.ready, watcher'.phase = watcher.phase, watcher'.troubles = watcher.troubles,
         heard \subseteq heard', heard' \subseteq heard \union watcher.outbox,
         watcher.outbox \subseteq watcher'.outbox \union heard'
  PROVE  Fleet!FleetObserverInv'
<1> USE DEF Fleet!FleetObserverInv
<1>1. Fleet!FleetObserverTypeOK' BY DEF Fleet!FleetObserverTypeOK
<1>2. Fleet!CalmIsPast' BY DEF Fleet!CalmIsPast, Fleet!Never
<1>3. Fleet!FleetAlarms(watcher') = Fleet!FleetAlarms(watcher) BY DEF Fleet!FleetAlarms
<1>4. watcher.outbox \union heard \subseteq watcher'.outbox \union heard' OBVIOUS
<1>5. Fleet!AlarmsAreTold' BY <1>3, <1>4 DEF Fleet!AlarmsAreTold, Fleet!Never
<1> QED BY <1>1, <1>2, <1>5

\* An alarm the Observer sees for the first time since it owes one is news of this change.
LEMMA AlarmIsNews ==
  ASSUME Fleet!FleetObserverInv, watcher.phase # "none",
    NEW a \in Fleet!FleetAlarms(fleet) \ Fleet!FleetAlarms(watcher)
  PROVE  a \in Fleet!PhaseNews \union Fleet!TroubleNews
<1> USE DEF Fleet!FleetAlarms
<1>1. CASE a \in fleet.troubles BY <1>1 DEF Fleet!TroubleNews
<1>2. CASE a = fleet.phase /\ a \in Fleet!Alarming
  BY <1>2 DEF Fleet!PhaseNews, Fleet!Alarming
<1> QED BY <1>1, <1>2

\* The news are news, whatever the view.
LEMMA NewsAreNews ==
  ASSUME Fleet!FleetObserverInv
  PROVE  Fleet!PhaseNews \union Fleet!TroubleNews \subseteq Fleet!Alarms \union {"up", "healthy", "adopted",
    "running"}
<1>1. FleetFacts BY FleetFieldsAreTyped
<1>2. Fleet!PhaseNews \subseteq Fleet!Alarms \union {"up", "healthy", "adopted", "running"}
  BY <1>1 DEF FleetFacts, Fleet!PhaseNews, Fleet!Alarms, Fleet!Alarming, Fleet!Phases
<1>3. \A trouble : Fleet!Relief(trouble) \subseteq {"up", "healthy"} BY DEF Fleet!Relief
<1>4. UNION {Fleet!Relief(trouble) : trouble \in watcher.troubles \ fleet.troubles} \subseteq {"up", "healthy"}
  BY <1>3
<1>5. fleet.troubles \subseteq Fleet!Alarms BY <1>1 DEF FleetFacts, Fleet!Alarms
<1>6. Fleet!TroubleNews \subseteq Fleet!Alarms \union {"up", "healthy"} BY <1>4, <1>5 DEF Fleet!TroubleNews
<1> QED BY <1>2, <1>6

LEMMA WatchesKeeps ==
  ASSUME Fleet!FleetObserverInv, Fleet!Watches
  PROVE  Fleet!FleetObserverInv'
<1> USE DEF Fleet!FleetObserverInv
<1>1. FleetFacts BY FleetFieldsAreTyped
<1> DEFINE Watchers == [ready : BOOLEAN, phase : Fleet!Phases \union {"none"}, troubles : SUBSET Fleet!Troubles,
      outbox : SUBSET Fleet!News]
<1>2. watcher \in Watchers /\ UNCHANGED <<fleet, heard>> /\ watch' = "report"
  BY DEF Fleet!FleetObserverTypeOK, Fleet!Watches
<1>3. ASSUME NEW seen \in Watchers, NEW news \in SUBSET (Fleet!Alarms \union {"up", "healthy", "adopted", "running"}),
             Fleet!Keeps(seen, news), Fleet!Remembers(seen), seen.outbox = watcher.outbox, seen.ready,
             seen.phase = "none" => watcher.phase = "none" /\ "down" \in seen.troubles,
             \A a \in Fleet!FleetAlarms(seen) \ Fleet!FleetAlarms(watcher) : calm[a] = Fleet!Never \/ a \in news
      PROVE  Fleet!FleetObserverInv'
  <2>1. Fleet!Of(news) \subseteq Fleet!News BY <1>1 DEF FleetFacts, Fleet!Of, Fleet!News
  <2>2. watcher' = [seen EXCEPT !.outbox = watcher.outbox \union Fleet!Of(news)] BY <1>2, <1>3 DEF Fleet!Keeps
  <2> DEFINE outbox == watcher.outbox \union Fleet!Of(news)
  <2>3. outbox \in SUBSET Fleet!News BY <1>1, <2>1 DEF FleetFacts
  <2>4. \A key \in watcher.outbox : key \in outbox OBVIOUS
  <2>5. ASSUME NEW a \in news PROVE \E key \in outbox : key.what = a /\ key.at = fleet.changes
    <3>1. [what |-> a, at |-> fleet.changes] \in Fleet!Of(news) BY DEF Fleet!Of
    <3> QED BY <3>1
  <2>6. watcher' = [seen EXCEPT !.outbox = outbox] BY <2>2
  <2> HIDE DEF outbox
  <2>7. /\ watcher' \in Watchers /\ watcher'.ready = seen.ready /\ watcher'.phase = seen.phase
        /\ watcher'.troubles = seen.troubles /\ watcher'.outbox = outbox
    BY <2>3, <2>6
  <2>8. /\ calm' \in [Fleet!Alarms -> 0..Fleet!Never]
        /\ \A a \in Fleet!Alarms : calm'[a] = IF a \notin Fleet!FleetAlarms(seen) /\ (seen.phase # "none"
           \/ a = "down")
                                             THEN fleet.changes ELSE calm[a]
    <3>1. fleet.changes \in 0..Fleet!Never BY <1>1 DEF FleetFacts, Fleet!Never
    <3> QED BY <1>1, <1>3, <3>1 DEF FleetFacts, Fleet!Remembers
  <2>9. Fleet!FleetObserverTypeOK' BY <1>2, <2>7, <2>8 DEF Fleet!FleetObserverTypeOK, Fleet!Never
  <2>10. Fleet!CalmIsPast'
    <3>1. seen.phase = "none" => \A a \in Fleet!Alarms : calm'[a] = Fleet!Never
      BY <1>3, <2>8 DEF Fleet!CalmIsPast, Fleet!FleetAlarms
    <3>2. \A a \in Fleet!Alarms : calm'[a] # Fleet!Never => calm'[a] =< fleet.changes
      <4>1. fleet.changes \in Int BY <1>1 DEF FleetFacts
      <4> QED BY <2>8, <4>1 DEF Fleet!CalmIsPast
    <3> QED BY <1>2, <1>3, <2>7, <3>1, <3>2 DEF Fleet!CalmIsPast, Fleet!Never
  <2>11. ASSUME NEW a \in Fleet!FleetAlarms(seen), calm'[a] # Fleet!Never
         PROVE  \E key \in outbox \union heard : key.what = a /\ key.at >= calm'[a]
    <3>1. a \in Fleet!Alarms BY DEF Fleet!FleetAlarms, Fleet!Alarms
    <3>2. calm'[a] = calm[a] /\ calm[a] # Fleet!Never BY <2>8, <2>11, <3>1
    <3>3. CASE a \in Fleet!FleetAlarms(watcher) BY <2>4, <3>2, <3>3 DEF Fleet!AlarmsAreTold
    <3>4. CASE a \notin Fleet!FleetAlarms(watcher)
      <4>1. PICK key \in outbox : key.what = a /\ key.at = fleet.changes BY <1>3, <2>5, <3>2, <3>4
      <4>2. calm[a] =< fleet.changes /\ calm[a] \in Int /\ fleet.changes \in Int
        BY <1>1, <3>1, <3>2 DEF Fleet!CalmIsPast, FleetFacts
      <4> QED BY <3>2, <4>1, <4>2
    <3> QED BY <3>3, <3>4
  <2>12. Fleet!FleetAlarms(watcher') = Fleet!FleetAlarms(seen) BY <2>7 DEF Fleet!FleetAlarms
  <2>13. Fleet!AlarmsAreTold' BY <1>2, <2>7, <2>11, <2>12 DEF Fleet!AlarmsAreTold, Fleet!Never
  <2> QED BY <2>9, <2>10, <2>13
<1>4. CASE ~Fleet!Projected
  <2> DEFINE seen == [watcher EXCEPT !.ready = TRUE, !.troubles = watcher.troubles \union {"down"}]
  <2>1. watcher.troubles \union {"down"} \in SUBSET Fleet!Troubles BY <1>1 DEF FleetFacts, Fleet!Troubles
  <2>2. /\ seen \in Watchers /\ seen.outbox = watcher.outbox /\ seen.ready /\ seen.phase = watcher.phase
        /\ seen.troubles = watcher.troubles \union {"down"}
    BY <1>2, <2>1
  <2>3. Fleet!Keeps(seen, {"down"} \ watcher.troubles) /\ Fleet!Remembers(seen) BY <1>2, <1>4 DEF Fleet!Watches
  <2> HIDE DEF seen, Watchers
  <2>4. {"down"} \ watcher.troubles \in SUBSET (Fleet!Alarms \union {"up", "healthy", "adopted", "running"})
    BY DEF Fleet!Alarms, Fleet!Troubles
  <2>5. \A a \in Fleet!FleetAlarms(seen) \ Fleet!FleetAlarms(watcher) : a \in {"down"} \ watcher.troubles
    BY <2>2 DEF Fleet!FleetAlarms
  <2> QED BY <1>3, <2>2, <2>3, <2>4, <2>5
<1>5. CASE Fleet!Projected
  <2> DEFINE seen == Fleet!Baseline
             news == IF watcher.ready THEN Fleet!PhaseNews \union Fleet!TroubleNews ELSE {}
  <2>1. /\ seen \in Watchers /\ seen.outbox = watcher.outbox /\ seen.ready /\ seen.phase = fleet.phase
        /\ seen.troubles = fleet.troubles
    BY <1>1, <1>2 DEF FleetFacts, Fleet!Baseline
  <2>2. Fleet!Keeps(seen, news) /\ Fleet!Remembers(seen) BY <1>5 DEF Fleet!Watches
  <2>3. news \in SUBSET (Fleet!Alarms \union {"up", "healthy", "adopted", "running"}) BY NewsAreNews
  <2>4. fleet.phase # "none" BY <1>1 DEF FleetFacts, Fleet!Phases
  <2>5. \A a \in Fleet!FleetAlarms(seen) \ Fleet!FleetAlarms(watcher) : calm[a] = Fleet!Never \/ a \in news
    <3>1. SUFFICES ASSUME NEW a \in Fleet!FleetAlarms(seen) \ Fleet!FleetAlarms(watcher), calm[a] # Fleet!Never
                   PROVE  a \in news
      OBVIOUS
    <3>2. Fleet!FleetAlarms(seen) = Fleet!FleetAlarms(fleet) BY <2>1 DEF Fleet!FleetAlarms
    <3>3. a \in Fleet!Alarms BY <1>1, <3>1, <3>2 DEF Fleet!FleetAlarms, Fleet!Alarms, FleetFacts
    <3>4. watcher.phase # "none" /\ watcher.ready BY <3>1, <3>3 DEF Fleet!CalmIsPast
    <3> QED BY <3>1, <3>2, <3>4, AlarmIsNews
  <2> HIDE DEF seen, news, Watchers
  <2> QED BY <1>3, <2>1, <2>2, <2>3, <2>4, <2>5
<1> QED BY <1>4, <1>5

LEMMA FleetStepKeeps ==
  ASSUME Fleet!FleetObserverInv, [Fleet!FleetObserverNext]_fleetObserverVars
  PROVE  Fleet!FleetObserverInv'
<1>1. watcher \in [ready : BOOLEAN, phase : Fleet!Phases \union {"none"}, troubles : SUBSET Fleet!Troubles,
        outbox : SUBSET Fleet!News]
      /\ watch \in {"flush", "observe", "report"} /\ watcher.outbox \subseteq Fleet!News
  BY DEF Fleet!FleetObserverInv, Fleet!FleetObserverTypeOK
<1>2. CASE Fleet!FleetChanges BY <1>2, FleetChangesKeeps
<1>3. CASE Fleet!Watches BY <1>3, WatchesKeeps
<1>4. CASE Fleet!NothingIsDue \/ Fleet!FleetObserverDies \/ Fleet!WatchThrows \/ UNCHANGED fleetObserverVars
  <2>1. /\ UNCHANGED <<fleet, watcher, calm>> /\ watch' \in {"flush", "observe", "report"}
        /\ heard \subseteq heard' /\ heard' \subseteq heard \union watcher.outbox
    BY <1>1, <1>4 DEF Fleet!NothingIsDue, Fleet!FleetObserverDies, Fleet!WatchThrows, fleetObserverVars,
           Fleet!AfterReport
  <2> QED BY <1>1, <2>1, DeliveriesKeep
<1>5. ASSUME NEW key \in watcher.outbox, Fleet!Delivers(key) PROVE Fleet!FleetObserverInv'
  <2>1. UNCHANGED <<fleet, watch, calm>> /\ heard' = heard \union {key}
        /\ watcher' = [watcher EXCEPT !.outbox = watcher.outbox \ {key}]
    BY <1>5 DEF Fleet!Delivers
  <2>2. /\ watcher' \in [ready : BOOLEAN, phase : Fleet!Phases \union {"none"}, troubles : SUBSET Fleet!Troubles,
           outbox : SUBSET Fleet!News]
        /\ watcher'.ready = watcher.ready /\ watcher'.phase = watcher.phase /\ watcher'.troubles = watcher.troubles
        /\ watcher'.outbox = watcher.outbox \ {key}
    BY <1>1, <2>1
  <2> QED BY <1>1, <2>1, <2>2, DeliveriesKeep
<1>6. ASSUME NEW key \in watcher.outbox, Fleet!Postpones(key) PROVE Fleet!FleetObserverInv'
  <2>1. UNCHANGED <<fleet, watcher, calm>> /\ watch' \in {"flush", "observe", "report"}
        /\ heard \subseteq heard' /\ heard' \subseteq heard \union watcher.outbox
    BY <1>1, <1>6 DEF Fleet!Postpones, Fleet!AfterReport
  <2> QED BY <1>1, <2>1, DeliveriesKeep
<1> QED BY <1>2, <1>3, <1>4, <1>5, <1>6 DEF Fleet!FleetObserverNext

-----------------------------------------------------------------------------
(* The product: one runs, and the others stay as they are.                  *)

HermesInv == Observer!ObserverInv /\ Approval!ApprovalInv /\ Fleet!FleetObserverInv

LEMMA HermesInitially == HermesInit => HermesInv
BY ObserverInitially, ApprovalInitially, FleetObserverInitially DEF HermesInit, HermesInv

LEMMA HermesStepKeeps ==
  ASSUME HermesInv, [HermesNext]_hermesVars
  PROVE  HermesInv' /\ [Observer!NothingComesBack]_observerVars
<1> USE DEF HermesInv
<1>1. [Observer!ObserverNext]_observerVars /\ [Approval!ApprovalNext]_approvalVars
        /\ [Fleet!FleetObserverNext]_fleetObserverVars
  BY DEF HermesNext, ObserverRuns, ApprovalRuns, FleetRuns, hermesVars
<1>2. Observer!ObserverInv' /\ Observer!NothingComesBack BY <1>1, ObserverStepKeeps
<1>3. Approval!ApprovalInv' BY <1>1, ApprovalStepKeeps
<1>4. Fleet!FleetObserverInv' BY <1>1, FleetStepKeeps
<1> QED BY <1>2, <1>3, <1>4

LEMMA HermesInvariants == HermesSpec => []HermesInv
<1>1. HermesInv /\ [HermesNext]_hermesVars => HermesInv' BY HermesStepKeeps
<1> QED BY <1>1, HermesInitially, PTL DEF HermesSpec

\* What each of the three keeps has its type, the two state files that are read again at
\* every start included.
THEOREM HermesIsTyped == HermesSpec => []HermesTypeOK
<1>1. HermesInv => HermesTypeOK
  BY DEF HermesInv, Observer!ObserverInv, Approval!ApprovalInv, Fleet!FleetObserverInv, HermesTypeOK
<1> QED BY <1>1, HermesInvariants, PTL

\* The end of a Job that the Observer counts as seen is told or waits to be told, whatever
\* crashes, failed deliveries and full queues lie between: the queue and the view that was
\* compared are one file (hermes-observer.ts, saveState).
THEOREM EndsAreNotForgotten == HermesSpec => []NothingForgotten
<1>1. HermesInv => NothingForgotten BY DEF HermesInv, Observer!ObserverInv, NothingForgotten
<1> QED BY <1>1, HermesInvariants, PTL

\* The end of a Job that reached the operator and left the queue never enters it again, in
\* whichever of the two versions and however often the Observer is started again.
THEOREM EndsAreNotReplayed == HermesSpec => NoReplay
<1>1. HermesInv /\ [HermesNext]_hermesVars => [Observer!NothingComesBack]_observerVars BY HermesStepKeeps
<1> QED BY <1>1, HermesInvariants, PTL DEF HermesSpec, NoReplay

\* An alarm the Observer of the Fleet holds as seen, after it kept a view without it, was told
\* since then or waits to be told (fleet-observer.ts, saveFleetObserverState).
THEOREM AlarmsReachTheQueue == HermesSpec => []AlarmsAreTold
<1>1. HermesInv => AlarmsAreTold BY DEF HermesInv, Fleet!FleetObserverInv, AlarmsAreTold
<1> QED BY <1>1, HermesInvariants, PTL

\* Two answers to one card never both decide, and what a button decides is what its own card
\* showed, for any number of presses, cards and revisions (hermes-approval.ts).
THEOREM AnswersDecideTheirCard == HermesSpec => []AnswersAreExact
<1>1. HermesInv => AnswersAreExact BY DEF HermesInv, Approval!ApprovalInv, AnswersAreExact
<1> QED BY <1>1, HermesInvariants, PTL
=============================================================================
