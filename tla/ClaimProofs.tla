---------------------------- MODULE ClaimProofs ----------------------------
(***************************************************************************)
(* For any issues, blockers and Maps, and any number of human edits: what  *)
(* the claim label and the ledger promise each other.                      *)
(***************************************************************************)
EXTENDS ClaimLifecycle, WellFoundedInduction, TLAPS

USE IssueAssumption, EditsAssumption

-----------------------------------------------------------------------------
(* The selection.                                                          *)

\* A non-empty set of naturals has its minimum.
LEMMA MinIsLeast ==
    ASSUME NEW S \in SUBSET Nat, S # {}
    PROVE  Min(S) \in S /\ \A x \in S : Min(S) =< x
<1>1. PICK x \in S : \A y \in S : ~ (<<y, x>> \in OpToRel(<, Nat))
  BY NatLessThanWellFounded, WFMin
<1>2. \A y \in S : x =< y
  <2>. SUFFICES ASSUME NEW y \in S, y < x PROVE FALSE
    OBVIOUS
  <2>1. <<y, x>> \in Nat \X Nat /\ <<y, x>>[1] < <<y, x>>[2]
    OBVIOUS
  <2>2. <<y, x>> \in {ss \in Nat \X Nat : ss[1] < ss[2]}
    BY <2>1
  <2>. QED
    BY <1>1, <2>2, Zenon DEF OpToRel
<1>. QED
  BY <1>2 DEF Min

\* The issue of a selected Map task is the first open child of its Map.
LEMMA MapTaskInOrder ==
    ASSUME TypeOK, NEW m \in Issue, NEW t \in MapTask(shape, issue, done, m)
    PROVE  t.issue \in Issue /\ t.key = m /\ InOrder(t.issue)
<1>. DEFINE f == frontier(shape, issue, m)
            sub == shape.sub[m]
            open == {k \in DOMAIN sub : issue[sub[k]].open}
<1>1. /\ t = [issue |-> f, key |-> m]
      /\ Executable(issue, m, done) /\ shape.parent[m] = NoIssue
      /\ f # NoIssue /\ shape.sub[f] = <<>> /\ Owners(shape, f) = {m}
      /\ Executable(issue, f, done)
  BY Zenon DEF MapTask, IsMap
<1>2. sub \in Seq(Issue) /\ IsInjective(sub)
  BY DEF TypeOK
<1>3. DOMAIN sub \subseteq Nat /\ \A k \in DOMAIN sub : sub[k] \in Issue
  <2>. HIDE DEF sub
  <2>. QED
    BY <1>2
<1>4. open # {} /\ f = sub[Min(open)]
  BY <1>1 DEF frontier
<1>5. open \in SUBSET Nat
  BY <1>3
<1>6. Min(open) \in open /\ \A k \in open : Min(open) =< k
  <2>. HIDE DEF open
  <2>. QED
    BY <1>4, <1>5, MinIsLeast
<1>7. f \in Issue
  BY <1>3, <1>4, <1>6
<1>8. \A k, l \in DOMAIN sub : k < l /\ sub[l] = f => ~issue[sub[k]].open
  <2>. SUFFICES ASSUME NEW k \in DOMAIN sub, NEW l \in DOMAIN sub, k < l, sub[l] = f,
                       issue[sub[k]].open
                PROVE  FALSE
    OBVIOUS
  <2>1. l = Min(open)
    BY <1>2, <1>4, <1>6 DEF IsInjective
  <2>2. Min(open) =< k
    BY <1>6
  <2>3. l \in Nat /\ k \in Nat
    BY <1>3
  <2>. HIDE DEF open, sub
  <2>. QED
    BY <2>1, <2>2, <2>3
<1>. QED
  BY <1>1, <1>7, <1>8 DEF InOrder

\* The issue of a selected standalone task is executable and belongs to no Map.
LEMMA StandaloneTaskInOrder ==
    ASSUME TypeOK, NEW i \in Issue, NEW t \in StandaloneTask(shape, issue, done, i)
    PROVE  t.issue \in Issue /\ t.key = i /\ InOrder(t.issue)
<1>1. /\ t = [issue |-> i, key |-> i]
      /\ shape.sub[i] = <<>> /\ Owners(shape, i) = {} /\ Executable(issue, i, done)
  BY Zenon DEF StandaloneTask, IsMap
<1>2. InOrder(i)
  BY <1>1 DEF InOrder
<1>. QED
  BY <1>1, <1>2

\* selectNextTask: whatever is selected may be claimed.
LEMMA SelectedInOrder ==
    ASSUME TypeOK, selectNextTask(shape, issue, done) # NoIssue
    PROVE  /\ selectNextTask(shape, issue, done) \in Issue
           /\ InOrder(selectNextTask(shape, issue, done))
<1>. DEFINE eligible == UNION {MapTask(shape, issue, done, i)
                                 \union StandaloneTask(shape, issue, done, i) : i \in Issue}
            keys     == {t.key : t \in eligible}
<1>1. \A t \in eligible : t.issue \in Issue /\ t.key \in Issue /\ InOrder(t.issue)
  BY MapTaskInOrder, StandaloneTaskInOrder
<1>2. eligible # {}
  BY DEF selectNextTask
<1>3. keys \in SUBSET Nat /\ keys # {}
  <2>. HIDE DEF eligible
  <2>1. \A k \in keys : k \in Nat
    BY <1>1
  <2>. QED
    BY <1>2, <2>1
<1>4. \E t \in eligible : t.key = Min(keys)
  <2>1. Min(keys) \in keys
    <3>. HIDE DEF keys
    <3>. QED
      BY <1>3, MinIsLeast
  <2>. QED
    BY <2>1
<1>5. selectNextTask(shape, issue, done) = (CHOOSE t \in eligible : t.key = Min(keys)).issue
  BY <1>2 DEF selectNextTask
<1>. HIDE DEF eligible, keys
<1>. QED
  BY <1>1, <1>4, <1>5

-----------------------------------------------------------------------------
(* The ledger and the labels.                                              *)

\* Setting the labels or the state of one issue makes a graph of snapshots.
LEMMA IssueTypes ==
    ASSUME TypeOK, NEW i \in Issue, NEW b \in BOOLEAN, NEW c \in BOOLEAN
    PROVE  /\ [issue EXCEPT ![i].claimed = b, ![i].ready = c] \in [Issue -> Snapshot]
           /\ [issue EXCEPT ![i].claimed = b] \in [Issue -> Snapshot]
           /\ [issue EXCEPT ![i].open = b] \in [Issue -> Snapshot]
           /\ [issue EXCEPT ![i].ready = b] \in [Issue -> Snapshot]
           /\ [issue EXCEPT ![i].assigned = b] \in [Issue -> Snapshot]
<1>1. ASSUME NEW s \in Snapshot
      PROVE  /\ [s EXCEPT !.claimed = b] \in Snapshot /\ [s EXCEPT !.open = b] \in Snapshot
             /\ [s EXCEPT !.ready = b] \in Snapshot /\ [s EXCEPT !.assigned = b] \in Snapshot
             /\ [s EXCEPT !.ready = c] \in Snapshot
  BY DEF Snapshot
<1>. QED
  BY <1>1 DEF TypeOK

\* selectNextTask answers with an issue, which is not done, or with nothing.
LEMMA SelectedIsNew ==
    ASSUME TypeOK, selectNextTask(shape, issue, done) # NoIssue
    PROVE  selectNextTask(shape, issue, done) \in Issue \ done
BY SelectedInOrder DEF InOrder, Executable

\* What a tick has done and read, whatever it goes on to.
LEMMA TickTypes ==
    ASSUME NEW at \in At, NEW i \in Issue \union {NoIssue}, NEW b \in BOOLEAN
    PROVE  LET Tick == [at : At, issue : Issue \union {NoIssue}, open : BOOLEAN]
           IN  /\ Idle \in Tick /\ Goes(at) \in Tick /\ Goes(at).at = at
               /\ [Goes(at) EXCEPT !.issue = i] \in Tick
               /\ [Goes(at) EXCEPT !.open = b] \in Tick
BY DEF Idle, Goes, At

\* Every change that the actions make of the Job makes a Job.
LEMMA JobTypes ==
    ASSUME TypeOK, NEW st \in JobState, NEW c \in Class
    PROVE  /\ NoJob \in Job
           /\ \A i \in Issue : [NoJob EXCEPT !.state = st, !.issue = i] \in Job
           /\ [job EXCEPT !.state = st, !.class = c] \in Job
           /\ [job EXCEPT !.state = st] \in Job
           /\ [job EXCEPT !.confirmed = TRUE] \in Job
           /\ [job EXCEPT !.hold = TRUE] \in Job
<1>1. NoJob \in Job
  BY DEF NoJob, Job, JobState, Class
<1>2. ASSUME NEW j \in Job
      PROVE  /\ \A i \in Issue : [j EXCEPT !.state = st, !.issue = i] \in Job
             /\ [j EXCEPT !.state = st, !.class = c] \in Job
             /\ [j EXCEPT !.state = st] \in Job
             /\ [j EXCEPT !.confirmed = TRUE] \in Job /\ [j EXCEPT !.hold = TRUE] \in Job
  BY DEF Job
<1>. QED
  BY <1>1, <1>2 DEF TypeOK

\* Every step of a tick, of the operator and of people keeps the types, given what
\* the invariant says of a tick in flight.
LEMMA TypeStep == TypeOK /\ ClaimInv /\ [Next]_vars => TypeOK'
<1>. SUFFICES ASSUME TypeOK, ClaimInv, [Next]_vars PROVE TypeOK'
  OBVIOUS
<1>. USE DEF ghosts, below
<1>. DEFINE Tick == [at : At, issue : Issue \union {NoIssue}, open : BOOLEAN]
<1>n. NoIssue \notin Issue
  OBVIOUS
<1>s. {"claimed", "working", "blocked", "cancelled", "done"} \subseteq JobState
  BY DEF JobState
<1>c. {"none", "stale_task", "analyst_unavailable", "integrity_violation", "work"} \subseteq Class
  BY DEF Class
<1>t. {"picked", "issue", "claim", "labelled", "worktree", "requeued", "closed", "released"} \subseteq At
  BY DEF At
<1>k. tick \in Tick /\ tick.issue \in Issue \union {NoIssue}
  BY DEF TypeOK
<1>i. ASSUME NEW st \in JobState, job' = [job EXCEPT !.state = st]
      PROVE  job' \in Job /\ job'.state = st /\ job'.class = job.class /\ job'.issue = job.issue
  BY <1>i, <1>c, JobTypes DEF TypeOK, Job
<1>j. ASSUME NEW st \in JobState, NEW c \in Class, job' = [job EXCEPT !.state = st, !.class = c]
      PROVE  job' \in Job /\ job'.state = st /\ job'.class = c /\ job'.issue = job.issue
  <2>1. job' \in Job
    BY <1>j, JobTypes
  <2>2. job \in Job
    BY DEF TypeOK
  <2>. QED
    BY <1>j, <2>1, <2>2 DEF Job
<1>g. issue \in [Issue -> Snapshot]
  BY DEF TypeOK
<1>w. job.state = "working" => job.class = "none"
  BY DEF TypeOK
<1>a. ASSUME NEW c \in Class \ {"none"}, Block(c), job.state # "none"
      PROVE  TypeOK'
  <2>0. "blocked" \in JobState /\ c \in Class
    BY <1>s
  <2>1. job' \in Job /\ job'.state = "blocked" /\ job'.class = c /\ job'.issue = job.issue
    <3>1. job' = [job EXCEPT !.state = "blocked", !.class = c]
      BY <1>a DEF Block
    <3>. QED
      BY <2>0, <3>1, <1>j
  <2>2. tick' \in Tick
    BY <1>a, TickTypes DEF Block, TypeOK
  <2>. QED
    BY <1>a, <2>1, <2>2 DEF Block, TypeOK
<1>b. ASSUME NEW at \in At, Proceeds(at), moved' \in BOOLEAN
      PROVE  TypeOK'
  <2>1. tick' \in Tick
    BY <1>b, TickTypes DEF Proceeds, TypeOK
  <2>. QED
    BY <1>b, <2>1 DEF Proceeds, TypeOK
<1>1. CASE ReadFrontier
  <2>1. selectNextTask(shape, issue, done) \in Issue
    BY <1>1, SelectedIsNew DEF ReadFrontier
  <2>2. tick' \in Tick
    BY <1>1, <1>t, <2>1, TickTypes DEF ReadFrontier
  <2>. QED
    BY <1>1, <2>2 DEF ReadFrontier, TypeOK
<1>2. CASE SaveSelection
  <2>1. tick.issue \in Issue
    BY <1>2 DEF ClaimInv, SaveSelection
  <2>2. job' \in Job /\ job'.state = "claimed" /\ job'.issue = tick.issue /\ job'.class = "none"
    BY <1>2, <1>s, <1>c, <2>1, JobTypes DEF SaveSelection, NoJob
  <2>3. tick' \in Tick
    BY <1>2 DEF SaveSelection, Idle, At
  <2>. QED
    BY <1>2, <2>1, <2>2, <2>3 DEF SaveSelection, TypeOK
<1>3. CASE RecogniseClaim
  <2>1. CASE Block("stale_task")
    BY <1>3, <2>1, <1>a DEF RecogniseClaim, Unconfirmed, Class
  <2>2. CASE Proceeds("labelled") /\ UNCHANGED moved
    BY <2>2, <1>b DEF TypeOK, At
  <2>. QED
    BY <1>3, <2>1, <2>2 DEF RecogniseClaim
<1>4. CASE ReadIssue
  <2>1. issue[job.issue].open \in BOOLEAN
    BY <1>4 DEF ReadIssue, Unconfirmed, TypeOK, Snapshot
  <2>2. tick' \in Tick
    BY <1>4, <1>t, <2>1, TickTypes DEF ReadIssue
  <2>. QED
    BY <1>4, <2>2 DEF ReadIssue, TypeOK
<1>5. CASE ReadGraph
  <2>0. job.state # "none"
    BY <1>5 DEF ReadGraph, ClaimInv
  <2>1. CASE Block("stale_task")
    BY <2>0, <2>1, <1>a DEF Class
  <2>2. CASE Proceeds("claim") /\ moved' = FALSE
    BY <2>2, <1>b DEF At
  <2>. QED
    BY <1>5, <2>1, <2>2 DEF ReadGraph
<1>6. CASE claimIssue
  <2>1. job.issue \in Issue
    BY <1>6 DEF claimIssue, ClaimInv, TypeOK
  <2>2. issue' \in [Issue -> Snapshot]
    BY <1>6, <2>1, IssueTypes DEF claimIssue
  <2>3. tick' \in Tick
    BY <1>6, <1>t, <1>k, TickTypes DEF claimIssue
  <2>. QED
    BY <1>6, <2>2, <2>3 DEF claimIssue, TypeOK
<1>7. CASE StartAnalyst
  <2>0. job.state = "claimed"
    BY <1>7 DEF StartAnalyst, ClaimInv
  <2>1. CASE Block("analyst_unavailable")
    BY <2>0, <2>1, <1>a DEF Class
  <2>2. CASE tick' = Idle /\ job' = [job EXCEPT !.confirmed = TRUE]
             /\ UNCHANGED <<shape, issue, done, stamped, ghosts, below>>
    <3>1. job' \in Job /\ job'.state = job.state /\ job'.issue = job.issue /\ job'.class = job.class
      <4>1. [job EXCEPT !.confirmed = TRUE] \in Job
        BY JobTypes DEF JobState, Class
      <4>. QED
        BY <2>2, <4>1 DEF TypeOK, Job
    <3>2. tick' \in Tick
      BY <2>2 DEF Idle, At
    <3>. QED
      BY <2>2, <3>1, <3>2 DEF TypeOK
  <2>. QED
    BY <1>7, <2>1, <2>2 DEF StartAnalyst
<1>8. CASE CreateWorktree
  <2>1. tick' \in Tick
    BY <1>8, <1>t, <1>k, TickTypes DEF CreateWorktree
  <2>. QED
    BY <1>8, <2>1 DEF CreateWorktree, TypeOK
<1>18. CASE SaveWorktree
  <2>0. job.state = "claimed"
    BY <1>18 DEF SaveWorktree, ClaimInv
  <2>1. CASE Block("integrity_violation")
    BY <2>0, <2>1, <1>a DEF Class
  <2>2. CASE tick' = Idle /\ job' = [job EXCEPT !.state = "working"]
             /\ UNCHANGED <<shape, issue, done, stamped, ghosts, below>>
    <3>1. job' \in Job /\ job'.state = "working" /\ job'.issue = job.issue /\ job'.class = job.class
      BY <2>2, <1>i, <1>s, <1>c
    <3>2. tick' \in Tick
      BY <2>2 DEF Idle, At
    <3>. QED
      BY <2>0, <2>2, <3>1, <3>2 DEF TypeOK
  <2>. QED
    BY <1>18, <2>1, <2>2 DEF SaveWorktree
<1>19. CASE closeAttempt
  BY <1>19 DEF closeAttempt, TypeOK
<1>20. CASE closeAnalyst
  <2>1. tick' \in Tick
    BY <1>20, <1>t, <1>k, TickTypes DEF closeAnalyst
  <2>. QED
    BY <1>20, <2>1 DEF closeAnalyst, TypeOK
<1>9. CASE Diagnose
  <2>1. /\ job' \in Job /\ job'.issue = job.issue /\ job'.state \in {"blocked", "working"}
        /\ job'.class # "none" <=> job'.state = "blocked"
    <3>1. CASE job' = [job EXCEPT !.hold = TRUE]
      <4>1. [job EXCEPT !.hold = TRUE] \in Job
        BY JobTypes DEF JobState, Class
      <4>2. job' \in Job /\ job'.issue = job.issue /\ job'.state = job.state /\ job'.class = job.class
        BY <3>1, <4>1 DEF TypeOK, Job
      <4>. QED
        BY <1>9, <4>2 DEF Diagnose, TypeOK
    <3>2. CASE job' = [job EXCEPT !.state = "working", !.class = "none"]
      <4>1. "working" \in JobState /\ "none" \in Class
        BY <1>s, <1>c
      <4>. QED
        BY <3>2, <4>1, <1>j
    <3>3. CASE UNCHANGED job
      BY <1>9, <3>3 DEF Diagnose, TypeOK
    <3>. QED
      BY <1>9, <3>1, <3>2, <3>3 DEF Diagnose
  <2>. QED
    BY <1>9, <2>1 DEF Diagnose, TypeOK
<1>10. CASE requeueIssue \/ releaseIssueClaim
  <2>1. job.issue \in Issue
    BY <1>10 DEF requeueIssue, releaseIssueClaim, TypeOK
  <2>2. issue' \in [Issue -> Snapshot]
    <3>1. CASE requeueIssue
      BY <2>1, <3>1, IssueTypes DEF requeueIssue
    <3>2. CASE releaseIssueClaim
      <4>1. [issue EXCEPT ![job.issue].claimed = FALSE] \in [Issue -> Snapshot]
        BY <2>1, IssueTypes
      <4>. QED
        BY <3>2, <4>1, <1>g DEF releaseIssueClaim
    <3>. QED
      BY <1>10, <3>1, <3>2
  <2>3. tick' \in Tick
    <3>1. tick' = Goes("requeued") \/ tick' = Goes("released")
      BY <1>10 DEF requeueIssue, releaseIssueClaim
    <3>2. Goes("requeued") \in Tick /\ Goes("released") \in Tick
      BY <1>t, <1>k, TickTypes
    <3>. QED
      BY <3>1, <3>2
  <2>. QED
    BY <1>10, <2>2, <2>3 DEF requeueIssue, releaseIssueClaim, TypeOK
<1>11. CASE SaveArchive
  <2>1. job' \in Job /\ job' = NoJob
    BY <1>11, JobTypes DEF SaveArchive, NoJob, Job, JobState, Class
  <2>2. tick' \in Tick
    BY <1>11 DEF SaveArchive, Idle, At
  <2>3. done' \subseteq Issue
    BY <1>11 DEF SaveArchive, TypeOK
  <2>. QED
    BY <1>11, <1>n, <2>1, <2>2, <2>3 DEF SaveArchive, TypeOK, NoJob
<1>12. CASE Interrupted
  <2>1. tick' \in Tick
    BY <1>12 DEF Interrupted, Idle, At
  <2>. QED
    BY <1>12, <2>1 DEF Interrupted, TypeOK
<1>13. CASE Work
  <2>1. /\ job' \in Job /\ job'.issue = job.issue /\ job'.state \in {"blocked", "done"}
        /\ job'.class # "none" <=> job'.state = "blocked"
    <3>1. CASE job' = [job EXCEPT !.state = "blocked", !.class = "work"]
      <4>1. "blocked" \in JobState /\ "work" \in Class
        BY <1>s, <1>c
      <4>. QED
        BY <3>1, <4>1, <1>j
    <3>2. CASE job' = [job EXCEPT !.state = "done"]
      BY <1>13, <3>2, <1>i, <1>s, <1>c, <1>w DEF Work
    <3>. QED
      BY <1>13, <3>1, <3>2 DEF Work
  <2>2. job.issue \in Issue
    BY <1>13 DEF Work, TypeOK
  <2>3. issue' \in [Issue -> Snapshot]
    <3>1. [issue EXCEPT ![job.issue].open = FALSE] \in [Issue -> Snapshot]
      BY <2>2, IssueTypes
    <3>. QED
      BY <1>13, <1>g, <3>1 DEF Work
  <2>. QED
    BY <1>13, <2>1, <2>2, <2>3 DEF Work, TypeOK
<1>14. CASE cancelHeldJob
  <2>1. /\ job' \in Job /\ job'.issue = job.issue /\ job'.state = "cancelled"
        /\ job'.class = job.class
    BY <1>14, <1>i, <1>s, <1>c DEF cancelHeldJob
  <2>. QED
    BY <1>14, <2>1 DEF cancelHeldJob, CanBeCancelled, TypeOK
<1>15. ASSUME NEW i \in Issue, HumanEdits(i) PROVE TypeOK'
  <2>1. issue[i] \in Snapshot /\ {~issue[i].ready, ~issue[i].assigned, ~issue[i].open} \subseteq BOOLEAN
    BY DEF TypeOK, Snapshot
  <2>2. issue' \in [Issue -> Snapshot]
    <3>1. /\ [issue EXCEPT ![i].ready = ~issue[i].ready] \in [Issue -> Snapshot]
          /\ [issue EXCEPT ![i].assigned = ~issue[i].assigned] \in [Issue -> Snapshot]
          /\ [issue EXCEPT ![i].open = ~issue[i].open] \in [Issue -> Snapshot]
      BY <2>1, IssueTypes
    <3>. QED
      BY <1>15, <1>g, <3>1, Zenon DEF HumanEdits
  <2>3. edits' \in 0..MaxEdits
    BY <1>15 DEF HumanEdits, Touches, TypeOK
  <2>. QED
    BY <1>15, <2>2, <2>3 DEF HumanEdits, Touches, TypeOK
<1>16. CASE UNCHANGED vars
  BY <1>16 DEF vars, TypeOK
<1>. QED
  BY <1>1, <1>2, <1>3, <1>4, <1>5, <1>6, <1>7, <1>8, <1>9, <1>10, <1>11, <1>12, <1>13, <1>14,
     <1>15, <1>16, <1>18, <1>19, <1>20 DEF Next, Controller

\* Every step keeps what the labels, the ledger and a tick in flight know of each
\* other.
LEMMA ClaimStep == TypeOK /\ ClaimInv /\ [Next]_vars => ClaimInv'
<1>. SUFFICES ASSUME TypeOK, ClaimInv, [Next]_vars PROVE ClaimInv'
  OBVIOUS
<1>. USE DEF ClaimInv, NoOrphanClaim, DoneIsNeverRedone, ghosts, below
<1>d. done \subseteq Issue /\ NoIssue \notin done
  BY DEF TypeOK
<1>g. issue \in [Issue -> Snapshot]
  BY DEF TypeOK
<1>i. Idle.at = "idle" /\ \A at \in At : Goes(at).at = at
  BY TickTypes DEF Idle
<1>t. {"picked", "issue", "claim", "labelled", "worktree", "requeued", "closed", "released"} \subseteq At
  BY DEF At
<1>j. job.issue \in Issue \/ job.state = "none"
  BY DEF TypeOK
<1>f. UNCHANGED <<shape, issue, done, job>> => (InOrder(job.issue) <=> InOrder(job.issue)')
  BY Zenon DEF InOrder, Owners, Executable
<1>a. ASSUME NEW c \in Class, Block(c), job.state \in {"claimed", "working"}
      PROVE  ClaimInv'
  <2>1. job'.state = "blocked" /\ job'.issue = job.issue /\ job'.confirmed = job.confirmed
    BY <1>a DEF Block, TypeOK, Job
  <2>. QED
    BY <1>a, <1>i, <2>1 DEF Block
<1>1. CASE ReadFrontier
  <2>1. selectNextTask(shape, issue, done) \in Issue \ done
    BY <1>1, SelectedIsNew DEF ReadFrontier
  <2>2. tick'.at = "picked" /\ tick'.issue = selectNextTask(shape, issue, done)
    BY <1>1 DEF ReadFrontier, Goes, Idle
  <2>. QED
    BY <1>1, <2>1, <2>2 DEF ReadFrontier, NoJob
<1>2. CASE SaveSelection
  <2>1. job = NoJob /\ tick.issue \in Issue \ done
    BY <1>2 DEF SaveSelection
  <2>2. job'.state = "claimed" /\ job'.issue = tick.issue /\ ~job'.confirmed
    BY <1>2 DEF SaveSelection, NoJob
  <2>3. \A i \in Issue : issue[i].claimed => i \in done
    BY <2>1 DEF NoJob
  <2>4. pane' = "none" /\ issue' = issue /\ done' = done /\ tick' = Idle
    BY <1>2, <2>1 DEF SaveSelection, NoJob
  <2>. QED
    BY <1>i, <2>1, <2>2, <2>3, <2>4
<1>3. CASE RecogniseClaim
  <2>1. job.state = "claimed" /\ ~job.confirmed /\ issue[job.issue].claimed
    BY <1>3 DEF RecogniseClaim, Unconfirmed
  <2>2. CASE Block("stale_task")
    BY <1>a, <2>1, <2>2 DEF Class
  <2>3. CASE Proceeds("labelled") /\ UNCHANGED moved
    <3>1. tick'.at = "labelled"
      BY <2>3, <1>i, <1>t DEF Proceeds
    <3>. QED
      BY <2>1, <2>3, <3>1 DEF Proceeds
  <2>. QED
    BY <1>3, <2>2, <2>3 DEF RecogniseClaim
<1>4. CASE ReadIssue
  <2>1. job.state = "claimed" /\ ~job.confirmed
    BY <1>4 DEF ReadIssue, Unconfirmed
  <2>2. tick'.at = "issue"
    BY <1>4 DEF ReadIssue, Goes, Idle
  <2>. QED
    BY <1>4, <2>1, <2>2 DEF ReadIssue
<1>5. CASE ReadGraph
  <2>1. job.state = "claimed" /\ ~job.confirmed
    BY <1>5 DEF ReadGraph
  <2>2. CASE Block("stale_task")
    BY <1>a, <2>1, <2>2 DEF Class
  <2>3. CASE selectNextTask(shape, issue, done) = job.issue /\ Proceeds("claim") /\ moved' = FALSE
    <3>1. tick'.at = "claim"
      BY <2>3, <1>i, <1>t DEF Proceeds
    <3>2. InOrder(job.issue)
      BY <1>j, <2>1, <2>3, SelectedInOrder
    <3>3. InOrder(job.issue)'
      BY <1>f, <2>3, <3>2 DEF Proceeds
    <3>. QED
      BY <2>1, <2>3, <3>1, <3>3 DEF Proceeds
  <2>. QED
    BY <1>5, <2>2, <2>3 DEF ReadGraph
<1>6. CASE claimIssue
  <2>1. job.state = "claimed" /\ ~job.confirmed /\ job.issue \in Issue
    BY <1>6, <1>j DEF claimIssue
  <2>2. tick'.at = "labelled"
    BY <1>6, <1>i, <1>t DEF claimIssue
  <2>3. \A i \in Issue : issue'[i].claimed <=> issue[i].claimed \/ i = job.issue
    BY <1>6, <1>g, <2>1 DEF claimIssue, Snapshot
  <2>. QED
    BY <1>6, <2>1, <2>2, <2>3 DEF claimIssue
<1>7. CASE StartAnalyst
  <2>1. job.state = "claimed" /\ issue[job.issue].claimed
    BY <1>7 DEF StartAnalyst
  <2>2. CASE Block("analyst_unavailable")
    BY <1>a, <2>1, <2>2 DEF Class
  <2>3. CASE tick' = Idle /\ job' = [job EXCEPT !.confirmed = TRUE]
             /\ UNCHANGED <<shape, issue, done, stamped, ghosts, below>>
    <3>1. job'.state = "claimed" /\ job'.issue = job.issue
      BY <2>1, <2>3 DEF TypeOK, Job
    <3>. QED
      BY <1>i, <2>1, <2>3, <3>1
  <2>. QED
    BY <1>7, <2>2, <2>3 DEF StartAnalyst
<1>8. CASE CreateWorktree
  <2>1. job.state = "claimed" /\ job.confirmed /\ job.issue \in Issue /\ issue[job.issue].claimed
    BY <1>8, <1>j DEF CreateWorktree
  <2>2. tick'.at = "worktree"
    BY <1>8, <1>i, <1>t DEF CreateWorktree
  <2>. QED
    BY <1>8, <2>1, <2>2 DEF CreateWorktree
<1>18. CASE SaveWorktree
  <2>1. job.state = "claimed" /\ job.confirmed /\ issue[job.issue].claimed
    BY <1>18 DEF SaveWorktree
  <2>2. CASE Block("integrity_violation")
    BY <1>a, <2>1, <2>2 DEF Class
  <2>3. CASE tick' = Idle /\ job' = [job EXCEPT !.state = "working"]
             /\ UNCHANGED <<shape, issue, done, stamped, ghosts, below>>
    <3>1. job'.state = "working" /\ job'.issue = job.issue /\ job'.confirmed = job.confirmed
      BY <2>3 DEF TypeOK, Job
    <3>. QED
      BY <1>i, <2>1, <2>3, <3>1
  <2>. QED
    BY <1>18, <2>2, <2>3 DEF SaveWorktree
<1>19. CASE closeAttempt
  BY <1>19, <1>i DEF closeAttempt
<1>20. CASE closeAnalyst
  <2>1. tick'.at = "closed" /\ job.state \in {"done", "cancelled"}
    BY <1>20, <1>i, <1>t DEF closeAnalyst
  <2>2. job.state = "cancelled" => ~issue[job.issue].claimed /\ pane = "none"
    BY <1>20, <1>i DEF closeAnalyst
  <2>. QED
    BY <1>20, <2>1, <2>2 DEF closeAnalyst
<1>9. CASE Diagnose
  <2>1. job.state = "blocked" /\ job.confirmed /\ issue[job.issue].claimed /\ tick = Idle
    BY <1>9 DEF Diagnose
  <2>2. /\ job'.state \in {"blocked", "working"} /\ job'.issue = job.issue
        /\ job'.confirmed = job.confirmed
    BY <1>9 DEF Diagnose, TypeOK, Job
  <2>3. pane' # "none" => job'.state = "blocked"
    <3>1. CASE job' = [job EXCEPT !.hold = TRUE]
      BY <2>1, <3>1 DEF TypeOK, Job
    <3>. QED
      BY <1>9, <2>1, <3>1 DEF Diagnose
  <2>4. UNCHANGED <<issue, done, tick>>
    BY <1>9 DEF Diagnose
  <2>. QED
    BY <1>i, <2>1, <2>2, <2>3, <2>4
<1>10. CASE requeueIssue
  <2>1. job.state = "cancelled" /\ job.confirmed /\ job.issue \in Issue
    BY <1>10, <1>j DEF requeueIssue
  <2>2. tick'.at = "requeued"
    BY <1>10, <1>i, <1>t DEF requeueIssue
  <2>3. \A i \in Issue : issue'[i].claimed <=> issue[i].claimed /\ i # job.issue
    BY <1>10, <1>g, <2>1 DEF requeueIssue, Snapshot
  <2>. QED
    BY <1>10, <2>1, <2>2, <2>3 DEF requeueIssue
<1>11. CASE releaseIssueClaim
  <2>1. job.state = "done" /\ job.issue \in Issue
    BY <1>11, <1>j DEF releaseIssueClaim
  <2>2. tick'.at = "released"
    BY <1>11, <1>i, <1>t DEF releaseIssueClaim
  <2>3. \A i \in Issue : issue'[i].claimed => issue[i].claimed
    <3>1. CASE issue' = [issue EXCEPT ![job.issue].claimed = FALSE]
      BY <3>1, <1>g, <2>1 DEF Snapshot
    <3>. QED
      BY <1>11, <3>1 DEF releaseIssueClaim
  <2>. QED
    BY <1>11, <2>1, <2>2, <2>3 DEF releaseIssueClaim
<1>12. CASE SaveArchive
  <2>1. job' = NoJob /\ NoJob.state = "none" /\ NoJob.issue = NoIssue /\ ~NoJob.confirmed
    BY <1>12 DEF SaveArchive, NoJob
  <2>2. job.issue \in Issue /\ job.state \in {"cancelled", "done"}
    BY <1>12, <1>j DEF SaveArchive
  <2>3. NoIssue \notin done' /\ done \subseteq done'
    BY <1>12, <1>d, <2>2 DEF SaveArchive
  <2>4. \A i \in Issue : issue'[i].claimed => i \in done'
    <3>1. CASE tick.at = "closed"
      BY <1>12, <2>2, <2>3, <3>1 DEF SaveArchive
    <3>2. CASE tick.at = "released"
      BY <1>12, <2>2, <2>3, <3>2 DEF SaveArchive
    <3>. QED
      BY <1>12, <3>1, <3>2 DEF SaveArchive
  <2>5. tick'.at = "idle" /\ pane' = "none"
    BY <1>12, <1>i DEF SaveArchive
  <2>. QED
    BY <2>1, <2>3, <2>4, <2>5
<1>13. CASE Interrupted
  BY <1>13, <1>i DEF Interrupted
<1>14. CASE Work
  <2>1. job.state = "working" /\ job.confirmed /\ issue[job.issue].claimed /\ job.issue \in Issue
    BY <1>14, <1>j DEF Work
  <2>2. /\ job'.state \in {"blocked", "done"} /\ job'.issue = job.issue
        /\ job'.confirmed = job.confirmed
    BY <1>14 DEF Work, TypeOK, Job
  <2>3. \A i \in Issue : issue'[i].claimed = issue[i].claimed
    <3>1. CASE issue' = [issue EXCEPT ![job.issue].open = FALSE]
      BY <3>1, <1>g, <2>1 DEF Snapshot
    <3>2. issue' = issue \/ issue' = [issue EXCEPT ![job.issue].open = FALSE]
      BY <1>14 DEF Work
    <3>. QED
      BY <3>1, <3>2
  <2>4. /\ tick = Idle /\ tick' = tick /\ done' = done
        /\ pane' # "none" => job'.state = "blocked"
    BY <1>14, <2>1 DEF Work, TypeOK, Job
  <2>. QED
    BY <1>i, <2>1, <2>2, <2>3, <2>4
<1>15. CASE cancelHeldJob
  <2>1. job.state = "blocked" /\ job.confirmed
    BY <1>15 DEF cancelHeldJob, CanBeCancelled
  <2>2. job'.state = "cancelled" /\ job'.issue = job.issue /\ job'.confirmed
    BY <1>15, <2>1 DEF cancelHeldJob, TypeOK, Job
  <2>. QED
    BY <1>15, <2>1, <2>2 DEF cancelHeldJob, NoJob
<1>16. ASSUME NEW i \in Issue, HumanEdits(i) PROVE ClaimInv'
  <2>1. \A j \in Issue : issue'[j].claimed = issue[j].claimed
    <3>1. \/ issue' = issue
          \/ issue' = [issue EXCEPT ![i].ready = ~@]
          \/ issue' = [issue EXCEPT ![i].assigned = ~@]
          \/ issue' = [issue EXCEPT ![i].open = ~@]
      BY <1>16 DEF HumanEdits
    <3>. QED
      BY <3>1, <1>g DEF Snapshot
  <2>2. UNCHANGED <<job, done, tick, pane>> /\ moved'
    BY <1>16 DEF HumanEdits, Touches
  <2>. QED
    BY <1>j, <2>1, <2>2
<1>17. CASE UNCHANGED vars
  BY <1>17, <1>f DEF vars
<1>. QED
  BY <1>1, <1>2, <1>3, <1>4, <1>5, <1>6, <1>7, <1>8, <1>9, <1>10, <1>11, <1>12, <1>13, <1>14,
     <1>15, <1>16, <1>17, <1>18, <1>19, <1>20 DEF Next, Controller

\* The ledger and the labels start in agreement.
LEMMA ClaimInit == Init => TypeOK /\ ClaimInv
<1>. SUFFICES ASSUME Init PROVE TypeOK /\ ClaimInv
  OBVIOUS
<1>1. NoJob \in Job /\ NoJob.state = "none" /\ NoJob.issue = NoIssue /\ NoJob.class = "none"
  BY DEF NoJob, Job, JobState, Class
<1>2. Idle \in [at : At, issue : Issue \union {NoIssue}, open : BOOLEAN] /\ Idle.at = "idle"
  BY DEF Idle, At
<1>3. issue \in [Issue -> Snapshot] /\ \A i \in Issue : ~issue[i].claimed
  BY DEF Init, Snapshot
<1>4. TypeOK
  <2>1. NoIssue \notin Issue /\ 0 \in 0..MaxEdits /\ NoJob.state = "none"
    BY <1>1
  <2>2. {worktree, stamped, touched, moved, cut} \subseteq BOOLEAN
    BY DEF Init
  <2>3. job.state # "none" <=> job.issue \in Issue
    BY <1>1, <2>1 DEF Init
  <2>4. job.class # "none" <=> job.state \in {"blocked", "cancelled"}
    BY <1>1 DEF Init
  <2>. QED
    BY <1>1, <1>2, <1>3, <2>1, <2>2, <2>3, <2>4 DEF Init, TypeOK
<1>5. ClaimInv
  BY <1>1, <1>2, <1>3 DEF Init, ClaimInv, NoOrphanClaim, DoneIsNeverRedone
<1>. QED
  BY <1>4, <1>5

-----------------------------------------------------------------------------
(* What is promised.                                                       *)

\* Type correctness, with what is known of a tick in flight.
THEOREM ClaimTypeCorrect == Spec => [](TypeOK /\ ClaimInv)
<1>1. TypeOK /\ ClaimInv /\ [Next]_vars => (TypeOK /\ ClaimInv)'
  BY TypeStep, ClaimStep
<1>. QED
  BY ClaimInit, <1>1, PTL DEF Spec

\* Whatever crashes between the label and the ledger and whatever people edit: no
\* claim label is orphaned.
THEOREM ClaimsAreAccounted == Spec => []NoOrphanClaim
<1>1. ClaimInv => NoOrphanClaim
  BY DEF ClaimInv
<1>. QED
  BY ClaimTypeCorrect, <1>1, PTL

\* Nor is an issue whose Job is done worked on again, though its label may still say it
\* is claimed.
THEOREM DoneStaysDone == Spec => []DoneIsNeverRedone
<1>1. ClaimInv => DoneIsNeverRedone
  BY DEF ClaimInv
<1>. QED
  BY ClaimTypeCorrect, <1>1, PTL

\* Work is done under the claim label, and no agent outlives it.
THEOREM WorkUnderClaim == Spec => []WorkIsClaimed
<1>1. ClaimInv => WorkIsClaimed
  BY DEF ClaimInv, WorkIsClaimed
<1>. QED
  BY ClaimTypeCorrect, <1>1, PTL

\* claimIssue labels nothing but the strict frontier of the graph, unless people
\* acted since the graph was last read.
THEOREM FrontierOnly == Spec => ClaimsTheFrontier
<1>. DEFINE Ordered == \A i \in Issue : issue'[i].claimed /\ ~issue[i].claimed /\ ~moved => InOrder(i)
<1>1. TypeOK /\ ClaimInv /\ [Next]_vars => [Ordered]_vars
  <2>. SUFFICES ASSUME TypeOK, ClaimInv, Next PROVE Ordered
    OBVIOUS
  <2>. SUFFICES ASSUME NEW i \in Issue, issue'[i].claimed, ~issue[i].claimed, ~moved
                PROVE  InOrder(i)
    OBVIOUS
  <2>1. issue \in [Issue -> Snapshot]
    BY DEF TypeOK
  <2>2. CASE claimIssue
    <3>1. i = job.issue
      BY <2>1, <2>2 DEF claimIssue, Snapshot
    <3>. QED
      BY <2>2, <3>1 DEF claimIssue, ClaimInv
  <2>3. ASSUME issue' = issue PROVE FALSE
    BY <2>3
  <2>4. CASE requeueIssue \/ releaseIssueClaim
    <3>1. \/ issue' = issue \/ issue' = [issue EXCEPT ![job.issue].claimed = FALSE]
          \/ issue' = [issue EXCEPT ![job.issue].claimed = FALSE, ![job.issue].ready = TRUE]
      BY <2>4 DEF requeueIssue, releaseIssueClaim
    <3>2. CASE issue' = [issue EXCEPT ![job.issue].claimed = FALSE]
      BY <2>1, <3>2 DEF Snapshot
    <3>3. CASE issue' = [issue EXCEPT ![job.issue].claimed = FALSE, ![job.issue].ready = TRUE]
      BY <2>1, <3>3 DEF Snapshot
    <3>. QED
      BY <2>3, <3>1, <3>2, <3>3
  <2>5. CASE Work
    <3>1. issue' = issue \/ issue' = [issue EXCEPT ![job.issue].open = FALSE]
      BY <2>5 DEF Work
    <3>2. CASE issue' = [issue EXCEPT ![job.issue].open = FALSE]
      BY <2>1, <3>2 DEF Snapshot
    <3>. QED
      BY <2>3, <3>1, <3>2
  <2>6. ASSUME NEW j \in Issue, HumanEdits(j) PROVE FALSE
    <3>1. \/ issue' = issue
          \/ issue' = [issue EXCEPT ![j].ready = ~@]
          \/ issue' = [issue EXCEPT ![j].assigned = ~@]
          \/ issue' = [issue EXCEPT ![j].open = ~@]
      BY <2>6 DEF HumanEdits
    <3>2. CASE issue' = [issue EXCEPT ![j].ready = ~@]
      BY <2>1, <3>2 DEF Snapshot
    <3>3. CASE issue' = [issue EXCEPT ![j].assigned = ~@]
      BY <2>1, <3>3 DEF Snapshot
    <3>4. CASE issue' = [issue EXCEPT ![j].open = ~@]
      BY <2>1, <3>4 DEF Snapshot
    <3>. QED
      BY <2>3, <3>1, <3>2, <3>3, <3>4
  <2>7. CASE ReadFrontier \/ SaveSelection \/ ReadIssue \/ SaveArchive \/ Interrupted \/ Diagnose
             \/ cancelHeldJob \/ CreateWorktree \/ closeAttempt \/ closeAnalyst
    BY <2>3, <2>7 DEF ReadFrontier, SaveSelection, ReadIssue, SaveArchive, Interrupted, Diagnose,
                      cancelHeldJob, CreateWorktree, closeAttempt, closeAnalyst
  <2>8. CASE RecogniseClaim \/ ReadGraph \/ StartAnalyst \/ SaveWorktree
    BY <2>3, <2>8 DEF RecogniseClaim, ReadGraph, StartAnalyst, SaveWorktree, Block, Proceeds
  <2>. QED
    BY <2>2, <2>4, <2>5, <2>6, <2>7, <2>8 DEF Next, Controller
<1>. QED
  BY ClaimTypeCorrect, <1>1, PTL DEF Spec, ClaimsTheFrontier

=============================================================================
