--------------------------- MODULE RuntimeProofs ---------------------------
(***************************************************************************)
(* What holds of AttemptRuntime for any number of runners that are typed   *)
(* into the pane and any number of times an agent writes its result.       *)
(***************************************************************************)
EXTENDS AttemptRuntime, FiniteSetTheorems, TLAPS

USE ResultsAssumption, RunnerAssumption

-----------------------------------------------------------------------------
(* The runner that owns the spool, its child and its receipts.             *)

\* Where a runner has a child that it has recorded.
WithChild == {"handshake", "releasing", "await", "prompting", "running"}

\* What holds of the runner x that owns the spool z, of its child y and of the result.
Sound(x, y, z, res) ==
    /\ x.at # "none"
    /\ x.at \in {"owner", "owned"} => y.life = "none"
    /\ x.at \in WithChild \union {"spawned"} => y.life # "none"
    /\ y.life = "none" => y = NoChild
    /\ x.at \in WithChild \/ y.agent # "fresh" \/ y.inbox => z.progress = "child"
    /\ x.at = "stopped" /\ x.how # "failed" => y.life = "dead" /\ y.said = x.heard
    /\ x.at \in {"stopped", "confirming"} /\ ~x.unconfirmed => y.life # "alive"
    /\ z.terminal # "none" =>
           /\ x.at \in {"confirming", "gone"}
           /\ ~x.unconfirmed => y.life # "alive"
           /\ ~x.unconfirmed /\ z.terminal = "failed" /\ z.clean => res = 0
           /\ z.terminal = "ok" => y.life = "dead" /\ y.said = {"settled"}
    /\ z.terminated = "ok" =>
           /\ y.life = "alive" => y.agent = "fresh" /\ ~y.inbox
           /\ z.terminate \/ x.at = "gone"

\* The empty records are well formed.
LEMMA EmptyRecords ==
    NoProcess \in Process /\ NoChild \in Child /\ Idle \in Waiting /\ NoChild.life = "none"
    /\ NoChild.agent = "fresh" /\ NoChild.inbox = FALSE
BY DEF NoProcess, Process, Stages, NoChild, Child, Idle, Waiting, Events

\* The owner of the spool is sound; nobody else has anything.
LEMMA OwnerIsSound ==
    ASSUME PiTypeOK, PiInv
    PROVE  /\ spool.owner # Nobody =>
                  /\ spool.owner \in Runner
                  /\ Sound(run[spool.owner], child[spool.owner], spool, result)
           /\ \A q \in Runner : q # spool.owner =>
                  run[q].at \in {"none", "gone"} /\ child[q] = NoChild
<1>1. spool.owner # Nobody => spool.owner \in Runner
  BY DEF PiTypeOK, Receipt
<1>2. ASSUME spool.owner # Nobody
      PROVE  Sound(run[spool.owner], child[spool.owner], spool, result)
  BY <1>1, <1>2
  DEF PiInv, OwnerInv, ChildInv, TerminalInv, Quiet, Sound, WithChild, Spawned, Prompted, ChildGone,
      Running
<1>3. ASSUME NEW q \in Runner, q # spool.owner
      PROVE  run[q].at \in {"none", "gone"} /\ child[q] = NoChild
  BY <1>3 DEF PiInv, OwnerInv, Running, Spawned
<1>. QED
  BY <1>1, <1>2, <1>3

\* The other way round, after a step: PiInv is what is sound of the owner and true of
\* the Controller.
LEMMA SoundOwner ==
    ASSUME PiTypeOK', NEW r \in Runner, spool'.owner = r, adapter' = "pi-rpc",
           Sound(run'[r], child'[r], spool', result'),
           \A q \in Runner : q # r => run'[q].at \in {"none", "gone"} /\ child'[q] = NoChild,
           \A q \in typed' : run'[q].at = "none",
           OperationInv',
           taken' # 0 => taken' = result' /\ spool'.terminal = "ok",
           phase' # "prepared",
           phase' = "closed" => /\ typed' = {} /\ ~Running(r)'
                                /\ child'[r].life = "alive" => ~Prompted(r)'
    PROVE  PiInv'
<1>0. r # Nobody
  OBVIOUS
<1>1. OwnerInv'
  BY <1>0, EmptyRecords DEF OwnerInv, Sound, WithChild, Spawned, Prompted, Running, PiTypeOK
<1>2. ChildInv'
  BY EmptyRecords DEF ChildInv, Sound, ChildGone
<1>3. TerminalInv'
  BY <1>0 DEF TerminalInv, Sound
<1>4. spool'.terminated = "ok" => Quiet'
  BY <1>0, EmptyRecords DEF Quiet, Sound, Prompted, Running
<1>5. phase' = "closed" =>
           /\ typed' = {}
           /\ \A q \in Runner : ~Running(q)' /\ (child'[q].life = "alive" => ~Prompted(q)')
  BY EmptyRecords DEF Running, Prompted
<1>. QED
  BY <1>1, <1>2, <1>3, <1>4, <1>5 DEF PiInv

\* What a step of the runner r, or of its child, may do, to keep PiInv.
LEMMA RunnerKeeps ==
    ASSUME PiTypeOK, PiInv, NEW r \in Runner, Running(r) \/ Spawned(r), adapter = "pi-rpc",
           UNCHANGED <<adapter, phase, op, taken, typed, ctl>>,
           PiTypeOK',
           \A q \in Runner : q # r => run'[q] = run[q] /\ child'[q] = child[q],
           spool'.owner = spool.owner,
           spool.terminate => spool'.terminate,
           ~Running(r) => run'[r].at = run[r].at,
           spool.terminal = "ok" => spool'.terminal = "ok" /\ result' = result,
           Sound(run[r], child[r], spool, result) => Sound(run'[r], child'[r], spool', result'),
           spool.terminate \/ ~Running(r) => (Prompted(r)' => Prompted(r)),
           child[r].life # "alive" /\ ~Running(r) => child'[r].life # "alive"
    PROVE  PiInv'
<1>1. spool.owner = r
  BY DEF PiInv, OwnerInv
<1>2. r # Nobody
  OBVIOUS
<1>3. Sound(run'[r], child'[r], spool', result')
  BY <1>1, <1>2, OwnerIsSound
<1>4. \A q \in Runner : q # r => run'[q].at \in {"none", "gone"} /\ child'[q] = NoChild
  BY <1>1, OwnerIsSound
<1>5. \A q \in typed' : run'[q].at = "none"
  <2>1. \A q \in typed : q # r
    <3>1. run[r].at # "none"
      BY <1>1, <1>2 DEF PiInv, OwnerInv
    <3>. QED
      BY <3>1 DEF PiInv, OwnerInv
  <2>. QED
    BY <2>1 DEF PiTypeOK, PiInv, OwnerInv
<1>6. OperationInv'
  <2>1. ctl.at \in {"kill", "check"} => \A q \in Runner : Prompted(q)' => "child" \in ctl.pids
    <3>1. \A q \in Runner : q # r => (Prompted(q)' <=> Prompted(q))
      BY DEF Prompted
    <3>. QED
      BY <3>1 DEF PiInv, OperationInv
  <2>. QED
    BY <2>1 DEF PiInv, OperationInv
<1>7. phase' # "prepared"
  BY <1>1, <1>2 DEF PiInv
<1>8. phase' = "closed" => /\ typed' = {} /\ ~Running(r)'
                           /\ child'[r].life = "alive" => ~Prompted(r)'
  BY DEF PiInv, Running
<1>9. taken' # 0 => taken' = result' /\ spool'.terminal = "ok"
  BY DEF PiInv
<1>. QED
  BY <1>1, <1>3, <1>4, <1>5, <1>6, <1>7, <1>8, <1>9, SoundOwner

-----------------------------------------------------------------------------
(* The runner and its child.                                                *)

\* What a runner and the Controller write in the spool is a record of receipts.
LEMMA ReceiptEdits ==
    ASSUME NEW x \in Receipt
    PROVE  /\ \A r \in Runner : [x EXCEPT !.owner = r] \in Receipt
           /\ [x EXCEPT !.progress = "null"] \in Receipt
           /\ [x EXCEPT !.progress = "child"] \in Receipt
           /\ [x EXCEPT !.ready = TRUE] \in Receipt /\ [x EXCEPT !.accepted = TRUE] \in Receipt
           /\ \A a \in BOOLEAN : [x EXCEPT !.terminating = a] \in Receipt
           /\ [x EXCEPT !.terminate = TRUE] \in Receipt
           /\ \A a \in BOOLEAN, b \in BOOLEAN : [x EXCEPT !.terminate = a, !.terminating = b] \in Receipt
           /\ \A t \in {"ok", "failed"}, a \in BOOLEAN, p \in {"child", "null"} :
                  [x EXCEPT !.terminal = t, !.clean = a, !.progress = p] \in Receipt
           /\ \A t \in {"ok", "unconfirmed"} : [x EXCEPT !.terminated = t] \in Receipt
<1>1. (\A r \in Runner : [x EXCEPT !.owner = r] \in Receipt) /\ [x EXCEPT !.progress = "null"] \in Receipt
  BY DEF Receipt
<1>2. [x EXCEPT !.progress = "child"] \in Receipt
  BY DEF Receipt
<1>3. [x EXCEPT !.ready = TRUE] \in Receipt /\ [x EXCEPT !.accepted = TRUE] \in Receipt
  BY DEF Receipt
<1>4. \A a \in BOOLEAN : [x EXCEPT !.terminating = a] \in Receipt
  BY DEF Receipt
<1>5. [x EXCEPT !.terminate = TRUE] \in Receipt
  BY DEF Receipt
<1>6. \A a \in BOOLEAN, b \in BOOLEAN : [x EXCEPT !.terminate = a, !.terminating = b] \in Receipt
  BY DEF Receipt
<1>7. \A t \in {"ok", "failed"}, a \in BOOLEAN, p \in {"child", "null"} :
        [x EXCEPT !.terminal = t, !.clean = a, !.progress = p] \in Receipt
  BY DEF Receipt
<1>8. \A t \in {"ok", "unconfirmed"} : [x EXCEPT !.terminated = t] \in Receipt
  BY DEF Receipt
<1>. QED
  BY <1>1, <1>2, <1>3, <1>4, <1>5, <1>6, <1>7, <1>8

\* What a runner writes about itself, and a child about itself, is a record of its kind.
LEMMA ProcessEdits ==
    ASSUME NEW x \in Process
    PROVE  /\ \A at \in Stages : /\ [x EXCEPT !.at = at] \in Process
                                 /\ [x EXCEPT !.at = at, !.how = "predispatch"] \in Process
                                 /\ [x EXCEPT !.at = at, !.how = "failed", !.expired = TRUE] \in Process
                                 /\ [x EXCEPT !.at = at, !.unconfirmed = TRUE] \in Process
           /\ \A e \in Events : [x EXCEPT !.heard = x.heard \union {e}] \in Process
           /\ [x EXCEPT !.expired = TRUE] \in Process /\ [x EXCEPT !.how = "failed"] \in Process
           /\ \A at \in Stages, a \in BOOLEAN :
                /\ [x EXCEPT !.at = at, !.asked = a] \in Process
                /\ [x EXCEPT !.how = "failed", !.unconfirmed = a, !.at = at] \in Process
<1>1. \A at \in Stages : [x EXCEPT !.at = at] \in Process /\ [x EXCEPT !.at = at, !.how = "predispatch"] \in Process
  BY DEF Process
<1>2. \A at \in Stages : /\ [x EXCEPT !.at = at, !.how = "failed", !.expired = TRUE] \in Process
                         /\ [x EXCEPT !.at = at, !.unconfirmed = TRUE] \in Process
  BY DEF Process
<1>3. \A e \in Events : [x EXCEPT !.heard = x.heard \union {e}] \in Process
  BY DEF Process
<1>4. [x EXCEPT !.expired = TRUE] \in Process /\ [x EXCEPT !.how = "failed"] \in Process
  BY DEF Process
<1>5. \A at \in Stages, a \in BOOLEAN : [x EXCEPT !.at = at, !.asked = a] \in Process
  BY DEF Process
<1>6. \A at \in Stages, a \in BOOLEAN : [x EXCEPT !.how = "failed", !.unconfirmed = a, !.at = at] \in Process
  BY DEF Process
<1>. QED
  BY <1>1, <1>2, <1>3, <1>4, <1>5, <1>6

LEMMA ChildEdits ==
    ASSUME NEW x \in Child
    PROVE  /\ [x EXCEPT !.life = "alive"] \in Child /\ [x EXCEPT !.life = "dead"] \in Child
           /\ [x EXCEPT !.inbox = TRUE] \in Child /\ [x EXCEPT !.inbox = FALSE, !.agent = "working"] \in Child
           /\ \A e \in Events, mood \in {"fresh", "working", "settled"} :
                  [x EXCEPT !.said = x.said \union {e}, !.agent = mood] \in Child
<1>1. [x EXCEPT !.life = "alive"] \in Child /\ [x EXCEPT !.life = "dead"] \in Child
  BY DEF Child
<1>2. [x EXCEPT !.inbox = TRUE] \in Child /\ [x EXCEPT !.inbox = FALSE, !.agent = "working"] \in Child
  BY DEF Child
<1>3. \A e \in Events, mood \in {"fresh", "working", "settled"} :
        [x EXCEPT !.said = x.said \union {e}, !.agent = mood] \in Child
  BY DEF Child
<1>. QED
  BY <1>1, <1>2, <1>3

LEMMA Updates ==
    ASSUME NEW S, NEW f \in [Runner -> S], NEW r \in Runner, NEW x \in S
    PROVE  [f EXCEPT ![r] = x] \in [Runner -> S]
OBVIOUS

\* Whatever a runner or a child does, its records stay well formed.
LEMMA ProcessTypes ==
    ASSUME PortTypeOK, PiTypeOK, PiProcesses
    PROVE  PortTypeOK' /\ PiTypeOK'
<1>. PICK r \in Runner : \/ PiRunner(r) \/ Dies(r) \/ TakesPrompt(r) \/ Works(r) \/ Says(r) \/ Exits(r)
  BY DEF PiProcesses
<1>0. spool \in Receipt /\ run[r] \in Process /\ child[r] \in Child
  BY DEF PiTypeOK
<1>1. PortTypeOK'
  <2>1. adapter' = adapter /\ phase' = phase /\ op' = op /\ tabs' = tabs /\ open' = open /\ late' = late
        /\ taken' = taken /\ (result' = result \/ WritesResult)
    BY DEF PiRunner, Dies, Works, ByChild, ByRunner, portVars, TakesPrompt, Says, Exits,
           TakesOwnership, RecordsItself, Spawns, RecordsChild,
           Handshakes, ReleasesLease, AwaitsDispatch, Expires, Accepts, Hears,
             Settles, Stalls, Interrupts, Stops, StopFails, Fails, Reports, Confirms
  <2>. QED
    BY <2>1 DEF PortTypeOK, WritesResult
<1>2. typed' \subseteq Runner /\ ctl' \in Waiting
  BY DEF PiTypeOK, PiRunner, Dies, Works, ByChild, ByRunner, portVars, TakesPrompt, Says, Exits,
         TakesOwnership, RecordsItself, Spawns, RecordsChild,
         Handshakes, ReleasesLease, AwaitsDispatch, Expires, Accepts, Hears,
           Settles, Stalls, Interrupts, Stops, StopFails, Fails, Reports, Confirms
<1>3. spool' \in Receipt
  <2>1. CASE TakesOwnership(r)
    <3>1. spool' = spool \/ spool' = [spool EXCEPT !.owner = r]
      BY <2>1 DEF TakesOwnership
    <3>2. [spool EXCEPT !.owner = r] \in Receipt
      BY <1>0, ReceiptEdits
    <3>. QED
      BY <3>1, <3>2, <1>0
  <2>2. CASE Spawns(r)
    <3>1. spool' = spool
      BY <2>2 DEF Spawns
    <3>. QED
      BY <3>1, <1>0
  <2>3. CASE RecordsChild(r)
    BY <2>3, <1>0, ReceiptEdits DEF RecordsChild
  <2>4. CASE Handshakes(r)
    BY <2>4, <1>0, ReceiptEdits DEF Handshakes
  <2>5. CASE ReleasesLease(r)
    <3>1. spool' = spool
      BY <2>5 DEF ReleasesLease
    <3>. QED
      BY <3>1, <1>0
  <2>6. CASE AwaitsDispatch(r)
    <3>1. spool' = spool \/ spool' = [spool EXCEPT !.terminating = TRUE]
      BY <2>6 DEF AwaitsDispatch
    <3>2. [spool EXCEPT !.terminating = TRUE] \in Receipt
      BY <1>0, ReceiptEdits
    <3>. QED
      BY <3>1, <3>2, <1>0
  <2>7. CASE Expires(r)
    <3>1. spool' = [spool EXCEPT !.terminate = TRUE, !.terminating = TRUE]
      BY <2>7 DEF Expires
    <3>2. [spool EXCEPT !.terminate = TRUE, !.terminating = TRUE] \in Receipt
      BY <1>0, ReceiptEdits
    <3>. QED
      BY <3>1, <3>2
  <2>8. CASE Accepts(r)
    BY <2>8, <1>0, ReceiptEdits DEF Accepts
  <2>9. CASE Hears(r)
    <3>1. spool' = spool
      BY <2>9 DEF Hears
    <3>. QED
      BY <3>1, <1>0
  <2>10. CASE Settles(r)
    <3>1. spool' = spool
      BY <2>10 DEF Settles
    <3>. QED
      BY <3>1, <1>0
  <2>11. CASE Stalls(r)
    <3>1. spool' = [spool EXCEPT !.terminate = TRUE]
      BY <2>11 DEF Stalls
    <3>2. [spool EXCEPT !.terminate = TRUE] \in Receipt
      BY <1>0, ReceiptEdits
    <3>. QED
      BY <3>1, <3>2
  <2>12. CASE Interrupts(r)
    BY <2>12, <1>0, ReceiptEdits DEF Interrupts
  <2>13. CASE Stops(r)
    <3>1. spool' = spool
      BY <2>13 DEF Stops
    <3>. QED
      BY <3>1, <1>0
  <2>14. CASE StopFails(r)
    <3>1. PICK a \in BOOLEAN : spool' = [spool EXCEPT !.terminating = a]
      BY <2>14, <1>0 DEF StopFails, Receipt
    <3>. QED
      BY <3>1, <1>0, ReceiptEdits
  <2>15. CASE Fails(r)
    <3>1. PICK a \in BOOLEAN, b \in BOOLEAN : spool' = [spool EXCEPT !.terminate = a, !.terminating = b]
      <4>1. \A a \in BOOLEAN, b \in BOOLEAN : (a \/ b) \in BOOLEAN
        OBVIOUS
      <4>2. late \in BOOLEAN /\ spool.terminate \in BOOLEAN /\ spool.terminating \in BOOLEAN
        BY <1>0 DEF PortTypeOK, Receipt
      <4>. QED
        BY <2>15, <4>1, <4>2 DEF Fails
    <3>. QED
      BY <3>1, <1>0, ReceiptEdits
  <2>16. CASE Reports(r)
    <3>1. PICK x \in {"ok", "failed"}, a \in BOOLEAN, z \in {"child", "null"} :
            spool' = [spool EXCEPT !.terminal = x, !.clean = a, !.progress = z]
      BY <2>16 DEF Reports
    <3>2. [spool EXCEPT !.terminal = x, !.clean = a, !.progress = z] \in Receipt
      BY <1>0, ReceiptEdits
    <3>. QED
      BY <3>1, <3>2
  <2>17. CASE Confirms(r)
    <3>1. PICK x \in {"ok", "unconfirmed"} : spool' = [spool EXCEPT !.terminated = x]
      BY <2>17 DEF Confirms
    <3>. QED
      BY <3>1, <1>0, ReceiptEdits
  <2>18. CASE Dies(r)
    <3>1. spool' = spool
      BY <2>18 DEF Dies
    <3>. QED
      BY <3>1, <1>0
  <2>19. CASE TakesPrompt(r)
    <3>1. spool' = spool
      BY <2>19 DEF TakesPrompt, ByChild
    <3>. QED
      BY <3>1, <1>0
  <2>20. CASE Works(r)
    <3>1. spool' = spool
      BY <2>20 DEF Works, ByChild
    <3>. QED
      BY <3>1, <1>0
  <2>21. CASE Says(r)
    <3>1. spool' = spool
      BY <2>21 DEF Says, ByChild
    <3>. QED
      BY <3>1, <1>0
  <2>22. CASE Exits(r)
    <3>1. spool' = spool
      BY <2>22 DEF Exits, ByChild
    <3>. QED
      BY <3>1, <1>0
  <2>23. CASE RecordsItself(r)
    BY <2>23, <1>0, ReceiptEdits DEF RecordsItself
  <2>. QED
    BY <2>1, <2>2, <2>3, <2>4, <2>5, <2>6, <2>7, <2>8, <2>9, <2>10, <2>11, <2>12, <2>13, <2>14, <2>15, <2>16, <2>17,
       <2>18, <2>19, <2>20, <2>21, <2>22, <2>23 DEF PiRunner
<1>4. run' \in [Runner -> Process]
  <2>0. run \in [Runner -> Process]
    BY DEF PiTypeOK
  <2>1. CASE TakesOwnership(r)
    <3>1. PICK at \in Stages : run' = [run EXCEPT ![r].at = at]
      BY <2>1 DEF TakesOwnership, Step, Stages
    <3>2. [run[r] EXCEPT !.at = at] \in Process
      BY <1>0, ProcessEdits
    <3>. QED
      BY <3>1, <3>2, <2>0, Updates
  <2>2. CASE Spawns(r)
    <3>1. PICK at \in Stages : run' = [run EXCEPT ![r].at = at]
      BY <2>2 DEF Spawns, Step, Stages
    <3>2. [run[r] EXCEPT !.at = at] \in Process
      BY <1>0, ProcessEdits
    <3>. QED
      BY <3>1, <3>2, <2>0, Updates
  <2>3. CASE RecordsChild(r)
    <3>1. PICK at \in Stages : run' = [run EXCEPT ![r].at = at]
      BY <2>3 DEF RecordsChild, Step, Stages
    <3>2. [run[r] EXCEPT !.at = at] \in Process
      BY <1>0, ProcessEdits
    <3>. QED
      BY <3>1, <3>2, <2>0, Updates
  <2>4. CASE Handshakes(r)
    <3>1. PICK at \in Stages : run' = [run EXCEPT ![r].at = at]
      BY <2>4 DEF Handshakes, Step, Stages
    <3>2. [run[r] EXCEPT !.at = at] \in Process
      BY <1>0, ProcessEdits
    <3>. QED
      BY <3>1, <3>2, <2>0, Updates
  <2>5. CASE ReleasesLease(r)
    <3>1. PICK at \in Stages : run' = [run EXCEPT ![r].at = at]
      BY <2>5 DEF ReleasesLease, Step, Stages
    <3>2. [run[r] EXCEPT !.at = at] \in Process
      BY <1>0, ProcessEdits
    <3>. QED
      BY <3>1, <3>2, <2>0, Updates
  <2>6. CASE AwaitsDispatch(r)
    <3>1. \/ run' = [run EXCEPT ![r] = [run[r] EXCEPT !.at = "stopping", !.how = "predispatch"]]
          \/ run' = [run EXCEPT ![r].at = "prompting"]
      BY <2>6 DEF AwaitsDispatch, Step
    <3>2. /\ [run[r] EXCEPT !.at = "stopping", !.how = "predispatch"] \in Process
          /\ [run[r] EXCEPT !.at = "prompting"] \in Process
      BY <1>0, ProcessEdits DEF Stages
    <3>. QED
      BY <3>1, <3>2, <2>0, Updates
  <2>7. CASE Expires(r)
    <3>1. run' = [run EXCEPT ![r] = [run[r] EXCEPT !.at = "stopping", !.how = "failed", !.expired = TRUE]]
      BY <2>7 DEF Expires
    <3>2. [run[r] EXCEPT !.at = "stopping", !.how = "failed", !.expired = TRUE] \in Process
      BY <1>0, ProcessEdits DEF Stages
    <3>. QED
      BY <3>1, <3>2, <2>0, Updates
  <2>8. CASE Accepts(r)
    <3>1. PICK at \in Stages : run' = [run EXCEPT ![r].at = at]
      BY <2>8 DEF Accepts, Step, Stages
    <3>2. [run[r] EXCEPT !.at = at] \in Process
      BY <1>0, ProcessEdits
    <3>. QED
      BY <3>1, <3>2, <2>0, Updates
  <2>9. CASE Hears(r)
    <3>1. PICK e \in Events : run' = [run EXCEPT ![r].heard = @ \union {e}]
      BY <2>9, <1>0 DEF Hears, Child
    <3>2. [run[r] EXCEPT !.heard = run[r].heard \union {e}] \in Process
      BY <1>0, ProcessEdits DEF Stages
    <3>. QED
      BY <3>1, <3>2, <2>0, Updates
  <2>10. CASE Settles(r)
    <3>1. PICK at \in Stages : run' = [run EXCEPT ![r].at = at]
      BY <2>10 DEF Settles, Step, Stages
    <3>2. [run[r] EXCEPT !.at = at] \in Process
      BY <1>0, ProcessEdits
    <3>. QED
      BY <3>1, <3>2, <2>0, Updates
  <2>11. CASE Stalls(r)
    <3>1. run' = [run EXCEPT ![r].expired = TRUE]
      BY <2>11 DEF Stalls
    <3>2. [run[r] EXCEPT !.expired = TRUE] \in Process
      BY <1>0, ProcessEdits DEF Stages
    <3>. QED
      BY <3>1, <3>2, <2>0, Updates
  <2>12. CASE Interrupts(r)
    <3>1. PICK a \in BOOLEAN : run' = [run EXCEPT ![r] = [run[r] EXCEPT !.at = "stopping", !.asked = a]]
      BY <2>12, <1>0 DEF Interrupts, Receipt
    <3>2. [run[r] EXCEPT !.at = "stopping", !.asked = a] \in Process
      BY <1>0, ProcessEdits DEF Stages
    <3>. QED
      BY <3>1, <3>2, <2>0, Updates
  <2>13. CASE Stops(r)
    <3>1. PICK at \in Stages : run' = [run EXCEPT ![r].at = at]
      BY <2>13 DEF Stops, Step, Stages
    <3>2. [run[r] EXCEPT !.at = at] \in Process
      BY <1>0, ProcessEdits
    <3>. QED
      BY <3>1, <3>2, <2>0, Updates
  <2>14. CASE StopFails(r)
    <3>1. \/ run' = [run EXCEPT ![r] = [run[r] EXCEPT !.at = "stopped", !.unconfirmed = TRUE]]
          \/ run' = [run EXCEPT ![r] = [run[r] EXCEPT !.how = "failed"]]
      BY <2>14 DEF StopFails
    <3>2. /\ [run[r] EXCEPT !.at = "stopped", !.unconfirmed = TRUE] \in Process
          /\ [run[r] EXCEPT !.how = "failed"] \in Process
      BY <1>0, ProcessEdits DEF Stages
    <3>. QED
      BY <3>1, <3>2, <2>0, Updates
  <2>15. CASE Fails(r)
    <3>1. PICK at \in Stages, a \in BOOLEAN :
            run' = [run EXCEPT ![r] = [run[r] EXCEPT !.how = "failed", !.unconfirmed = a, !.at = at]]
      BY <2>15 DEF Fails, Stages
    <3>2. [run[r] EXCEPT !.how = "failed", !.unconfirmed = a, !.at = at] \in Process
      BY <1>0, ProcessEdits
    <3>. QED
      BY <3>1, <3>2, <2>0, Updates
  <2>16. CASE Reports(r)
    <3>1. PICK at \in Stages : run' = [run EXCEPT ![r].at = at]
      BY <2>16 DEF Reports, Step, Stages
    <3>2. [run[r] EXCEPT !.at = at] \in Process
      BY <1>0, ProcessEdits
    <3>. QED
      BY <3>1, <3>2, <2>0, Updates
  <2>17. CASE Confirms(r)
    <3>1. PICK at \in Stages : run' = [run EXCEPT ![r].at = at]
      BY <2>17 DEF Confirms, Step, Stages
    <3>2. [run[r] EXCEPT !.at = at] \in Process
      BY <1>0, ProcessEdits
    <3>. QED
      BY <3>1, <3>2, <2>0, Updates
  <2>18. CASE Dies(r)
    <3>1. PICK at \in Stages : run' = [run EXCEPT ![r].at = at]
      BY <2>18 DEF Dies, Step, Stages
    <3>2. [run[r] EXCEPT !.at = at] \in Process
      BY <1>0, ProcessEdits
    <3>. QED
      BY <3>1, <3>2, <2>0, Updates
  <2>19. CASE TakesPrompt(r)
    BY <2>19, <2>0 DEF TakesPrompt, ByChild
  <2>20. CASE Works(r)
    BY <2>20, <2>0 DEF Works, ByChild
  <2>21. CASE Says(r)
    BY <2>21, <2>0 DEF Says, ByChild
  <2>22. CASE Exits(r)
    BY <2>22, <2>0 DEF Exits, ByChild
  <2>23. CASE RecordsItself(r)
    <3>1. PICK at \in Stages : run' = [run EXCEPT ![r].at = at]
      BY <2>23 DEF RecordsItself, Step, Stages
    <3>2. [run[r] EXCEPT !.at = at] \in Process
      BY <1>0, ProcessEdits
    <3>. QED
      BY <3>1, <3>2, <2>0, Updates
  <2>. QED
    BY <2>1, <2>2, <2>3, <2>4, <2>5, <2>6, <2>7, <2>8, <2>9, <2>10, <2>11, <2>12, <2>13, <2>14, <2>15, <2>16, <2>17,
       <2>18, <2>19, <2>20, <2>21, <2>22, <2>23 DEF PiRunner
<1>5. child' \in [Runner -> Child]
  <2>0. child \in [Runner -> Child]
    BY DEF PiTypeOK
  <2>1. CASE TakesOwnership(r)
    BY <2>1, <2>0 DEF TakesOwnership
  <2>2. CASE Spawns(r)
    <3>1. child' = [child EXCEPT ![r].life = "alive"]
      BY <2>2 DEF Spawns
    <3>2. [child[r] EXCEPT !.life = "alive"] \in Child
      BY <1>0, ChildEdits
    <3>. QED
      BY <3>1, <3>2, <2>0, Updates
  <2>3. CASE RecordsChild(r)
    BY <2>3, <2>0 DEF RecordsChild
  <2>4. CASE Handshakes(r)
    BY <2>4, <2>0 DEF Handshakes
  <2>5. CASE ReleasesLease(r)
    BY <2>5, <2>0 DEF ReleasesLease
  <2>6. CASE AwaitsDispatch(r)
    <3>1. child' = child \/ child' = [child EXCEPT ![r].inbox = TRUE]
      BY <2>6 DEF AwaitsDispatch
    <3>2. [child[r] EXCEPT !.inbox = TRUE] \in Child
      BY <1>0, ChildEdits
    <3>. QED
      BY <3>1, <3>2, <2>0, Updates
  <2>7. CASE Expires(r)
    BY <2>7, <2>0 DEF Expires
  <2>8. CASE Accepts(r)
    BY <2>8, <2>0 DEF Accepts
  <2>9. CASE Hears(r)
    BY <2>9, <2>0 DEF Hears
  <2>10. CASE Settles(r)
    BY <2>10, <2>0 DEF Settles
  <2>11. CASE Stalls(r)
    BY <2>11, <2>0 DEF Stalls
  <2>12. CASE Interrupts(r)
    BY <2>12, <2>0 DEF Interrupts
  <2>13. CASE Stops(r)
    BY <2>13, <2>0 DEF Stops
  <2>14. CASE StopFails(r)
    BY <2>14, <2>0 DEF StopFails
  <2>15. CASE Fails(r)
    BY <2>15, <2>0 DEF Fails
  <2>16. CASE Reports(r)
    BY <2>16, <2>0 DEF Reports
  <2>17. CASE Confirms(r)
    BY <2>17, <2>0 DEF Confirms
  <2>18. CASE Dies(r)
    BY <2>18, <2>0 DEF Dies
  <2>19. CASE TakesPrompt(r)
    <3>1. child' = [child EXCEPT ![r] = [child[r] EXCEPT !.inbox = FALSE, !.agent = "working"]]
      BY <2>19 DEF TakesPrompt
    <3>2. [child[r] EXCEPT !.inbox = FALSE, !.agent = "working"] \in Child
      BY <1>0, ChildEdits
    <3>. QED
      BY <3>1, <3>2, <2>0, Updates
  <2>20. CASE Works(r)
    BY <2>20, <2>0 DEF Works
  <2>21. CASE Says(r)
    <3>1. PICK e \in Events :
            child' = [child EXCEPT ![r] = [child[r] EXCEPT !.said = child[r].said \union {e},
                                               !.agent = IF e = "settled" THEN e ELSE child[r].agent]]
      BY <2>21 DEF Says
    <3>2. PICK mood \in {"settled", child[r].agent} :
            child' = [child EXCEPT ![r] = [child[r] EXCEPT !.said = child[r].said \union {e}, !.agent = mood]]
      BY <3>1
    <3>3. mood \in {"fresh", "working", "settled"}
      BY <1>0 DEF Child
    <3>4. [child[r] EXCEPT !.said = child[r].said \union {e}, !.agent = mood] \in Child
      BY <1>0, <3>3, ChildEdits
    <3>. QED
      BY <3>2, <3>4, <2>0, Updates
  <2>22. CASE Exits(r)
    <3>1. child' = [child EXCEPT ![r].life = "dead"]
      BY <2>22 DEF Exits
    <3>2. [child[r] EXCEPT !.life = "dead"] \in Child
      BY <1>0, ChildEdits
    <3>. QED
      BY <3>1, <3>2, <2>0, Updates
  <2>23. CASE RecordsItself(r)
    BY <2>23, <2>0 DEF RecordsItself
  <2>. QED
    BY <2>1, <2>2, <2>3, <2>4, <2>5, <2>6, <2>7, <2>8, <2>9, <2>10, <2>11, <2>12, <2>13, <2>14, <2>15, <2>16, <2>17,
       <2>18, <2>19, <2>20, <2>21, <2>22, <2>23 DEF PiRunner
<1>. QED
  BY <1>1, <1>2, <1>3, <1>4, <1>5 DEF PiTypeOK

\* Taking ownership: the owner is sound from the start, and whoever comes late is gone.
LEMMA TakesOwnershipKeeps ==
    ASSUME PiTypeOK, PiTypeOK', PiInv, adapter = "pi-rpc", NEW r \in Runner, TakesOwnership(r)
    PROVE  PiInv'
<1>1. /\ run[r].at = "none" /\ phase # "prepared" /\ phase # "closed"
      /\ UNCHANGED <<adapter, phase, op, taken, result, child, ctl>>
      /\ typed' = typed \ {r}
  BY DEF TakesOwnership, PiInv, OwnerInv, portVars
<1>2. OperationInv'
  <2>1. UNCHANGED <<spool.terminate, spool.terminated>>
    BY DEF TakesOwnership, PiTypeOK, Receipt
  <2>. QED
    BY <1>1, <2>1 DEF PiInv, OperationInv, Prompted
<1>3. taken' # 0 => taken' = result' /\ spool'.terminal = "ok"
  BY <1>1 DEF TakesOwnership, PiInv, PiTypeOK, Receipt
<1>4. \A q \in typed' : run'[q].at = "none"
  BY <1>1 DEF TakesOwnership, Step, PiTypeOK, PiInv, OwnerInv
<1>5. CASE spool.owner = Nobody
  <2>1. /\ run' = [run EXCEPT ![r].at = "owner"]
        /\ spool' = [spool EXCEPT !.owner = r]
    BY <1>5 DEF TakesOwnership, Step
  <2>2. \A q \in Runner : run[q].at \in {"none", "gone"} /\ child[q] = NoChild
    BY <1>5, OwnerIsSound
  <2>3. spool.terminal = "none" /\ (spool.terminated = "ok" => spool.terminate)
    BY <1>5 DEF PiInv, TerminalInv, Quiet
  <2>4. run'[r].at = "owner" /\ \A q \in Runner : q # r => run'[q] = run[q]
    BY <2>1 DEF PiTypeOK, Process
  <2>5. /\ spool'.owner = r /\ spool'.terminal = "none" /\ spool'.terminated = spool.terminated
        /\ spool'.terminate = spool.terminate
    BY <2>1, <2>3 DEF PiTypeOK, Receipt
  <2>6. Sound(run'[r], child'[r], spool', result')
    BY <1>1, <2>2, <2>3, <2>4, <2>5, EmptyRecords DEF Sound, WithChild
  <2>. QED
    BY <1>1, <1>2, <1>3, <1>4, <2>2, <2>4, <2>5, <2>6, SoundOwner
<1>6. CASE spool.owner # Nobody
  <2>1. PICK owner \in Runner : owner = spool.owner
    BY <1>6, OwnerIsSound
  <2>2. run' = [run EXCEPT ![r].at = "gone"] /\ spool' = spool
    BY <1>6 DEF TakesOwnership, Step
  <2>3. owner # r
    BY <1>1, <1>6, <2>1 DEF PiInv, OwnerInv
  <2>4. run'[owner] = run[owner] /\ \A q \in Runner : q # owner => run'[q].at \in {"none", "gone"}
    BY <2>1, <2>2, <2>3, OwnerIsSound DEF PiTypeOK, Process
  <2>5. Sound(run'[owner], child'[owner], spool', result')
    BY <1>1, <1>6, <2>1, <2>2, <2>4, OwnerIsSound
  <2>6. spool'.owner = owner /\ \A q \in Runner : q # owner => child'[q] = NoChild
    BY <1>1, <1>6, <2>1, <2>2, OwnerIsSound
  <2>. QED
    BY <1>1, <1>2, <1>3, <1>4, <2>4, <2>5, <2>6, SoundOwner
<1>. QED
  BY <1>5, <1>6

\* A step of a runner moves it on and changes nothing else of it.
LEMMA StepMoves ==
    ASSUME PiTypeOK, NEW r \in Runner, NEW stage \in Stages, Step(r, stage)
    PROVE  /\ \A q \in Runner : q # r => run'[q] = run[q]
           /\ run'[r].at = stage
           /\ run'[r].how = run[r].how /\ run'[r].heard = run[r].heard
           /\ run'[r].unconfirmed = run[r].unconfirmed
BY DEF Step, PiTypeOK, Process

\* Every other step of a runner or of its child keeps what is sound of the owner.
LEMMA ProcessesKeep ==
    ASSUME PortTypeOK, PiTypeOK, PiInv, adapter = "pi-rpc", PiProcesses
    PROVE  PiInv'
<1>. PICK r \in Runner : \/ PiRunner(r) \/ Dies(r) \/ TakesPrompt(r) \/ Works(r) \/ Says(r) \/ Exits(r)
  BY DEF PiProcesses
<1>0. PiTypeOK'
  BY ProcessTypes
<1>1. CASE TakesOwnership(r)
  BY <1>0, <1>1, TakesOwnershipKeeps
<1>. USE DEF Stages
<1>2. CASE Spawns(r)
  <2>1. /\ \A q \in Runner : q # r => run'[q] = run[q]
        /\ run'[r].at = "spawned"
        /\ run'[r].how = run[r].how /\ run'[r].heard = run[r].heard
        /\ run'[r].unconfirmed = run[r].unconfirmed
    BY <1>2, StepMoves DEF Spawns
  <2>2. /\ UNCHANGED <<portVars, typed, ctl>>
        /\ spool'.owner = spool.owner /\ spool'.progress = spool.progress /\ spool'.terminate = spool.terminate
           /\ spool'.terminal = spool.terminal /\ spool'.clean = spool.clean /\ spool'.terminated = spool.terminated
    BY <1>2 DEF Spawns, ByRunner, PiTypeOK, Receipt
  <2>3. /\ child'[r] = [child[r] EXCEPT !.life = "alive"]
        /\ \A q \in Runner : q # r => child'[q] = child[q]
    BY <1>2 DEF Spawns, PiTypeOK, Child
  <2>4. Running(r) /\ (Prompted(r)' => Prompted(r))
    BY <1>2, <2>3 DEF Spawns, Running, Prompted, PiTypeOK, Child
  <2>5. Sound(run[r], child[r], spool, result) => Sound(run'[r], child'[r], spool', result')
    BY <1>2, <2>1, <2>2, <2>3, EmptyRecords DEF Sound, WithChild, Spawns, portVars, PiTypeOK, Child
  <2>. QED
    BY <1>0, <2>1, <2>2, <2>3, <2>4, <2>5, RunnerKeeps DEF portVars
<1>3. CASE RecordsChild(r)
  <2>1. /\ \A q \in Runner : q # r => run'[q] = run[q]
        /\ run'[r].at = "handshake"
        /\ run'[r].how = run[r].how /\ run'[r].heard = run[r].heard
        /\ run'[r].unconfirmed = run[r].unconfirmed
    BY <1>3, StepMoves DEF RecordsChild
  <2>2. /\ UNCHANGED <<portVars, typed, ctl>>
        /\ spool'.owner = spool.owner /\ spool'.terminate = spool.terminate /\ spool'.terminal = spool.terminal
           /\ spool'.clean = spool.clean /\ spool'.terminated = spool.terminated
        /\ spool'.progress = "child"
    BY <1>3 DEF RecordsChild, ByRunner, PiTypeOK, Receipt
  <2>3. child' = child
    BY <1>3 DEF RecordsChild, PiTypeOK, Child
  <2>4. Running(r) /\ (Prompted(r)' => Prompted(r))
    BY <1>3, <2>3 DEF RecordsChild, Running, Prompted, PiTypeOK, Child
  <2>5. Sound(run[r], child[r], spool, result) => Sound(run'[r], child'[r], spool', result')
    BY <1>3, <2>1, <2>2, <2>3, EmptyRecords DEF Sound, WithChild, RecordsChild, portVars, PiTypeOK, Child
  <2>. QED
    BY <1>0, <2>1, <2>2, <2>3, <2>4, <2>5, RunnerKeeps DEF portVars
<1>4. CASE Handshakes(r)
  <2>1. /\ \A q \in Runner : q # r => run'[q] = run[q]
        /\ run'[r].at = "releasing"
        /\ run'[r].how = run[r].how /\ run'[r].heard = run[r].heard
        /\ run'[r].unconfirmed = run[r].unconfirmed
    BY <1>4, StepMoves DEF Handshakes
  <2>2. /\ UNCHANGED <<portVars, typed, ctl>>
        /\ spool'.owner = spool.owner /\ spool'.progress = spool.progress /\ spool'.terminate = spool.terminate
           /\ spool'.terminal = spool.terminal /\ spool'.clean = spool.clean /\ spool'.terminated = spool.terminated
    BY <1>4 DEF Handshakes, ByRunner, PiTypeOK, Receipt
  <2>3. child' = child
    BY <1>4 DEF Handshakes, PiTypeOK, Child
  <2>4. Running(r) /\ (Prompted(r)' => Prompted(r))
    BY <1>4, <2>3 DEF Handshakes, Running, Prompted, PiTypeOK, Child
  <2>5. Sound(run[r], child[r], spool, result) => Sound(run'[r], child'[r], spool', result')
    BY <1>4, <2>1, <2>2, <2>3, EmptyRecords DEF Sound, WithChild, Handshakes, portVars, PiTypeOK, Child
  <2>. QED
    BY <1>0, <2>1, <2>2, <2>3, <2>4, <2>5, RunnerKeeps DEF portVars
<1>5. CASE ReleasesLease(r)
  <2>1. /\ \A q \in Runner : q # r => run'[q] = run[q]
        /\ run'[r].at = "await"
        /\ run'[r].how = run[r].how /\ run'[r].heard = run[r].heard
        /\ run'[r].unconfirmed = run[r].unconfirmed
    BY <1>5, StepMoves DEF ReleasesLease
  <2>2. /\ UNCHANGED <<portVars, typed, ctl>>
        /\ spool'.owner = spool.owner /\ spool'.progress = spool.progress /\ spool'.terminate = spool.terminate
           /\ spool'.terminal = spool.terminal /\ spool'.clean = spool.clean /\ spool'.terminated = spool.terminated
    BY <1>5 DEF ReleasesLease, ByRunner, PiTypeOK, Receipt
  <2>3. child' = child
    BY <1>5 DEF ReleasesLease, PiTypeOK, Child
  <2>4. Running(r) /\ (Prompted(r)' => Prompted(r))
    BY <1>5, <2>3 DEF ReleasesLease, Running, Prompted, PiTypeOK, Child
  <2>5. Sound(run[r], child[r], spool, result) => Sound(run'[r], child'[r], spool', result')
    BY <1>5, <2>1, <2>2, <2>3, EmptyRecords DEF Sound, WithChild, ReleasesLease, portVars, PiTypeOK, Child
  <2>. QED
    BY <1>0, <2>1, <2>2, <2>3, <2>4, <2>5, RunnerKeeps DEF portVars
<1>6. CASE AwaitsDispatch(r)
  <2>1. CASE spool.terminate
    <3>1. /\ \A q \in Runner : q # r => run'[q] = run[q]
          /\ run'[r] = [run[r] EXCEPT !.at = "stopping", !.how = "predispatch"]
          /\ UNCHANGED <<portVars, typed, ctl, child>>
          /\ spool' = [spool EXCEPT !.terminating = TRUE] /\ run[r].at = "await"
      BY <1>6, <2>1 DEF AwaitsDispatch, ByRunner, PiTypeOK
    <3>2. run'[r].at = "stopping" /\ run'[r].heard = run[r].heard /\ run'[r].unconfirmed = run[r].unconfirmed
      BY <3>1 DEF PiTypeOK, Process
    <3>3. spool'.owner = spool.owner /\ spool'.progress = spool.progress /\ spool'.terminate = spool.terminate
            /\ spool'.terminal = spool.terminal /\ spool'.clean = spool.clean /\ spool'.terminated = spool.terminated
      BY <3>1 DEF PiTypeOK, Receipt
    <3>4. Running(r) /\ (Prompted(r)' => Prompted(r))
      BY <3>1 DEF Running, Prompted
    <3>5. Sound(run[r], child[r], spool, result) => Sound(run'[r], child'[r], spool', result')
      BY <3>1, <3>2, <3>3 DEF Sound, WithChild, portVars
    <3>6. /\ child' = child /\ UNCHANGED <<adapter, phase, op, taken, result, typed, ctl>>
          /\ ~Running(r) => run'[r].at = run[r].at
      BY <3>1, <3>4 DEF portVars
    <3>7. \A q \in Runner : q # r => run'[q] = run[q] /\ child'[q] = child[q]
      BY <3>1, <3>6
    <3>. QED
      BY <1>0, <3>3, <3>4, <3>5, <3>6, <3>7, RunnerKeeps
  <2>2. CASE ~spool.terminate
    <3>1. Step(r, "prompting") /\ run[r].at = "await" /\ UNCHANGED <<portVars, typed, ctl, spool>>
          /\ child' = [child EXCEPT ![r].inbox = TRUE]
      BY <1>6, <2>2 DEF AwaitsDispatch, ByRunner
    <3>2. /\ \A q \in Runner : q # r => run'[q] = run[q] /\ child'[q] = child[q]
          /\ run'[r].at = "prompting" /\ child'[r].life = child[r].life
      BY <3>1, StepMoves DEF PiTypeOK, Child
    <3>3. Running(r)
      BY <3>1 DEF Running
    <3>4. Sound(run[r], child[r], spool, result) => Sound(run'[r], child'[r], spool', result')
      BY <2>2, <3>1, <3>2 DEF Sound, WithChild, portVars
    <3>. QED
      BY <1>0, <2>2, <3>1, <3>2, <3>3, <3>4, RunnerKeeps DEF portVars
  <2>. QED
    BY <2>1, <2>2
<1>7. CASE Expires(r)
  <2>1. /\ \A q \in Runner : q # r => run'[q] = run[q]
        /\ run'[r].at = "stopping" /\ run[r].at = "await"
    BY <1>7 DEF Expires, PiTypeOK, Process
  <2>2. UNCHANGED <<portVars, typed, ctl, child>>
    BY <1>7 DEF Expires, ByRunner
  <2>3. spool'.owner = spool.owner /\ spool'.progress = spool.progress /\ spool'.terminal = spool.terminal
          /\ spool'.clean = spool.clean /\ spool'.terminated = spool.terminated /\ (spool.terminate
          => spool'.terminate)
    BY <1>7 DEF Expires, PiTypeOK, Receipt
  <2>4. Running(r) /\ (Prompted(r)' => Prompted(r))
    BY <2>1, <2>2 DEF Running, Prompted, WithChild
  <2>5. Sound(run[r], child[r], spool, result) => Sound(run'[r], child'[r], spool', result')
    BY <2>1, <2>2, <2>3 DEF Sound, WithChild, portVars
  <2>. QED
    BY <1>0, <2>1, <2>2, <2>3, <2>4, <2>5, RunnerKeeps DEF portVars
<1>8. CASE Accepts(r)
  <2>1. /\ \A q \in Runner : q # r => run'[q] = run[q]
        /\ run'[r].at = "running"
        /\ run'[r].how = run[r].how /\ run'[r].heard = run[r].heard
        /\ run'[r].unconfirmed = run[r].unconfirmed
    BY <1>8, StepMoves DEF Accepts
  <2>2. /\ UNCHANGED <<portVars, typed, ctl>>
        /\ spool'.owner = spool.owner /\ spool'.progress = spool.progress /\ spool'.terminate = spool.terminate
           /\ spool'.terminal = spool.terminal /\ spool'.clean = spool.clean /\ spool'.terminated = spool.terminated
    BY <1>8 DEF Accepts, ByRunner, PiTypeOK, Receipt
  <2>3. child' = child
    BY <1>8 DEF Accepts, PiTypeOK, Child
  <2>4. Running(r) /\ (Prompted(r)' => Prompted(r))
    BY <1>8, <2>3 DEF Accepts, Running, Prompted, PiTypeOK, Child
  <2>5. Sound(run[r], child[r], spool, result) => Sound(run'[r], child'[r], spool', result')
    BY <1>8, <2>1, <2>2, <2>3, EmptyRecords DEF Sound, WithChild, Accepts, portVars, PiTypeOK, Child
  <2>. QED
    BY <1>0, <2>1, <2>2, <2>3, <2>4, <2>5, RunnerKeeps DEF portVars
<1>9. CASE Hears(r)
  <2>1. /\ \A q \in Runner : q # r => run'[q] = run[q]
        /\ run'[r].at = run[r].at /\ run'[r].how = run[r].how /\ run'[r].unconfirmed = run[r].unconfirmed
        /\ run[r].at \in WithChild \union {"stopping"}
    BY <1>9 DEF Hears, PiTypeOK, Process, Events, WithChild
  <2>2. UNCHANGED <<portVars, typed, ctl, child>>
    BY <1>9 DEF Hears, ByRunner
  <2>3. UNCHANGED spool
    BY <1>9 DEF Hears, PiTypeOK, Receipt
  <2>4. Running(r) /\ (Prompted(r)' => Prompted(r))
    BY <2>1, <2>2 DEF Running, Prompted, WithChild
  <2>5. Sound(run[r], child[r], spool, result) => Sound(run'[r], child'[r], spool', result')
    BY <2>1, <2>2, <2>3 DEF Sound, WithChild, portVars
  <2>. QED
    BY <1>0, <2>1, <2>2, <2>3, <2>4, <2>5, RunnerKeeps DEF portVars
<1>10. CASE Settles(r)
  <2>1. /\ \A q \in Runner : q # r => run'[q] = run[q]
        /\ run'[r].at = "stopping" /\ run[r].at = "running"
    BY <1>10, StepMoves DEF Settles, PiTypeOK, Process
  <2>2. UNCHANGED <<portVars, typed, ctl, child>>
    BY <1>10 DEF Settles, ByRunner
  <2>3. UNCHANGED spool
    BY <1>10 DEF Settles, PiTypeOK, Receipt
  <2>4. Running(r) /\ (Prompted(r)' => Prompted(r))
    BY <2>1, <2>2 DEF Running, Prompted, WithChild
  <2>5. Sound(run[r], child[r], spool, result) => Sound(run'[r], child'[r], spool', result')
    BY <2>1, <2>2, <2>3 DEF Sound, WithChild, portVars
  <2>. QED
    BY <1>0, <2>1, <2>2, <2>3, <2>4, <2>5, RunnerKeeps DEF portVars
<1>11. CASE Stalls(r)
  <2>1. /\ \A q \in Runner : q # r => run'[q] = run[q]
        /\ run'[r] = [run[r] EXCEPT !.expired = TRUE]
        /\ UNCHANGED <<portVars, typed, ctl, child>>
        /\ spool' = [spool EXCEPT !.terminate = TRUE] /\ run[r].at = "running"
    BY <1>11 DEF Stalls, ByRunner, PiTypeOK
  <2>2. run'[r].at = "running"
    BY <2>1 DEF PiTypeOK, Process
  <2>3. spool'.owner = spool.owner /\ spool'.progress = spool.progress /\ spool'.terminal = spool.terminal
          /\ spool'.clean = spool.clean /\ spool'.terminated = spool.terminated /\ spool'.terminate
    BY <2>1 DEF PiTypeOK, Receipt
  <2>4. Running(r) /\ (Prompted(r)' => Prompted(r))
    BY <2>1 DEF Running, Prompted
  <2>5. Sound(run[r], child[r], spool, result) => Sound(run'[r], child'[r], spool', result')
    BY <2>1, <2>2, <2>3 DEF Sound, WithChild, portVars
  <2>6. /\ child' = child /\ UNCHANGED <<adapter, phase, op, taken, result, typed, ctl>>
        /\ ~Running(r) => run'[r].at = run[r].at
        /\ \A q \in Runner : q # r => run'[q] = run[q] /\ child'[q] = child[q]
    BY <2>1, <2>4 DEF portVars
  <2>. QED
    BY <1>0, <2>3, <2>4, <2>5, <2>6, RunnerKeeps
<1>12. CASE Interrupts(r)
  <2>1. /\ \A q \in Runner : q # r => run'[q] = run[q]
        /\ run'[r].at = "stopping" /\ run[r].at = "running"
    BY <1>12 DEF Interrupts, PiTypeOK, Process
  <2>2. UNCHANGED <<portVars, typed, ctl, child>>
    BY <1>12 DEF Interrupts, ByRunner
  <2>3. spool'.owner = spool.owner /\ spool'.progress = spool.progress /\ spool'.terminal = spool.terminal
          /\ spool'.clean = spool.clean /\ spool'.terminated = spool.terminated /\ (spool.terminate
          => spool'.terminate)
    BY <1>12 DEF Interrupts, PiTypeOK, Receipt
  <2>4. Running(r) /\ (Prompted(r)' => Prompted(r))
    BY <2>1, <2>2 DEF Running, Prompted, WithChild
  <2>5. Sound(run[r], child[r], spool, result) => Sound(run'[r], child'[r], spool', result')
    BY <2>1, <2>2, <2>3 DEF Sound, WithChild, portVars
  <2>. QED
    BY <1>0, <2>1, <2>2, <2>3, <2>4, <2>5, RunnerKeeps DEF portVars
<1>13. CASE Stops(r)
  <2>1. /\ \A q \in Runner : q # r => run'[q] = run[q]
        /\ run'[r].at = "stopped" /\ run'[r].unconfirmed = run[r].unconfirmed /\ run[r].at = "stopping"
        /\ child[r].life = "dead" /\ child[r].said = run'[r].heard
    BY <1>13, StepMoves DEF Stops, PiTypeOK, Process, ChildGone
  <2>2. UNCHANGED <<portVars, typed, ctl, child>>
    BY <1>13 DEF Stops, ByRunner
  <2>3. UNCHANGED spool
    BY <1>13 DEF Stops, PiTypeOK, Receipt
  <2>4. Running(r) /\ (Prompted(r)' => Prompted(r))
    BY <2>1, <2>2 DEF Running, Prompted, WithChild
  <2>5. Sound(run[r], child[r], spool, result) => Sound(run'[r], child'[r], spool', result')
    BY <2>1, <2>2, <2>3 DEF Sound, WithChild, portVars
  <2>. QED
    BY <1>0, <2>1, <2>2, <2>3, <2>4, <2>5, RunnerKeeps DEF portVars
<1>14. CASE StopFails(r)
  <2>1. /\ \A q \in Runner : q # r => run'[q] = run[q]
        /\ \/ run'[r] = [run[r] EXCEPT !.at = "stopped", !.unconfirmed = TRUE]
           \/ run'[r] = [run[r] EXCEPT !.how = "failed"]
        /\ UNCHANGED <<portVars, typed, ctl, child>>
        /\ run[r].at = "stopping"
    BY <1>14 DEF StopFails, ByRunner, PiTypeOK
  <2>2. \/ run'[r].at = "stopped" /\ run'[r].unconfirmed /\ run'[r].how = run[r].how
        \/ run'[r].at = "stopping"
    BY <2>1 DEF PiTypeOK, Process
  <2>3. run'[r].at = "stopped" => run'[r].how = "failed"
    BY <1>14, <2>1 DEF StopFails, PiTypeOK, Process
  <2>4. spool'.owner = spool.owner /\ spool'.progress = spool.progress /\ spool'.terminate = spool.terminate
          /\ spool'.terminal = spool.terminal /\ spool'.clean = spool.clean /\ spool'.terminated = spool.terminated
    BY <1>14 DEF StopFails, PiTypeOK, Receipt
  <2>5. Running(r) /\ (Prompted(r)' => Prompted(r))
    BY <2>1 DEF Running, Prompted
  <2>6. Sound(run[r], child[r], spool, result) => Sound(run'[r], child'[r], spool', result')
    BY <2>1, <2>2, <2>3, <2>4 DEF Sound, WithChild, portVars
  <2>. QED
    BY <1>0, <2>1, <2>2, <2>4, <2>5, <2>6, RunnerKeeps DEF portVars
<1>15. CASE Fails(r)
  <2>1. PICK at \in {"stopped", "stopping"}, unconfirmed \in BOOLEAN :
          /\ run' = [run EXCEPT ![r] = [@ EXCEPT !.how = "failed", !.unconfirmed = unconfirmed, !.at = at]]
          /\ at = IF run[r].at \in {"owned", "spawned", "stopped"} THEN "stopped" ELSE "stopping"
          /\ unconfirmed = (run[r].at = "spawned")
    BY <1>15 DEF Fails
  <2>2. /\ \A q \in Runner : q # r => run'[q] = run[q]
        /\ run'[r].at = at /\ run'[r].how = "failed" /\ run'[r].unconfirmed = unconfirmed
    BY <2>1 DEF PiTypeOK, Process
  <2>3. /\ UNCHANGED <<portVars, typed, ctl, child>>
        /\ run[r].at \in WithChild \union {"owned", "spawned", "stopped"} /\ run[r].how # "failed"
    BY <1>15 DEF Fails, ByRunner, WithChild
  <2>4. spool'.owner = spool.owner /\ spool'.progress = spool.progress /\ spool'.terminal = spool.terminal
          /\ spool'.clean = spool.clean /\ spool'.terminated = spool.terminated /\ (spool.terminate
          => spool'.terminate)
    BY <1>15 DEF Fails, PiTypeOK, Receipt
  <2>5. Running(r) /\ (Prompted(r)' => Prompted(r))
    BY <2>3 DEF Running, Prompted, WithChild
  <2>6. Sound(run[r], child[r], spool, result) => Sound(run'[r], child'[r], spool', result')
    BY <2>1, <2>2, <2>3, <2>4 DEF Sound, WithChild, portVars
  <2>. QED
    BY <1>0, <2>2, <2>3, <2>4, <2>5, <2>6, RunnerKeeps DEF portVars
<1>16. CASE Reports(r)
  <2>1. /\ \A q \in Runner : q # r => run'[q] = run[q]
        /\ run'[r].at = "confirming" /\ run'[r].unconfirmed = run[r].unconfirmed
    BY <1>16, StepMoves DEF Reports
  <2>2. UNCHANGED <<portVars, typed, ctl, child>> /\ run[r].at = "stopped"
    BY <1>16 DEF Reports, ByRunner
  <2>3. /\ spool'.owner = spool.owner /\ spool'.terminate = spool.terminate
        /\ spool'.terminated = spool.terminated /\ spool'.terminal # "none" /\ spool'.clean = (result = 0)
        /\ spool'.progress = IF Spawned(r) THEN "child" ELSE "null"
        /\ spool'.terminal = "ok" => run[r].how = "normal" /\ run[r].heard = {"settled"}
    BY <1>16 DEF Reports, PiTypeOK, Receipt
  <2>4. Running(r) /\ (Prompted(r)' => Prompted(r))
    BY <2>2 DEF Running, Prompted
  <2>5. Sound(run[r], child[r], spool, result) => Sound(run'[r], child'[r], spool', result')
    BY <2>1, <2>2, <2>3, EmptyRecords DEF Sound, WithChild, portVars, Spawned
  <2>6. spool.terminal = "none"
    <3>1. spool.owner = r
      BY <2>4 DEF PiInv, OwnerInv
    <3>. QED
      BY <2>2, <3>1 DEF PiInv, TerminalInv
  <2>. QED
    BY <1>0, <2>1, <2>2, <2>3, <2>4, <2>5, <2>6, RunnerKeeps DEF portVars
<1>17. CASE Confirms(r)
  <2>1. /\ \A q \in Runner : q # r => run'[q] = run[q]
        /\ run'[r].at = "gone" /\ run'[r].unconfirmed = run[r].unconfirmed
    BY <1>17, StepMoves DEF Confirms
  <2>2. UNCHANGED <<portVars, typed, ctl, child>> /\ run[r].at = "confirming"
    BY <1>17 DEF Confirms, ByRunner
  <2>3. /\ spool'.owner = spool.owner /\ spool'.progress = spool.progress /\ spool'.terminate = spool.terminate
           /\ spool'.terminal = spool.terminal /\ spool'.clean = spool.clean
        /\ spool'.terminated = "ok" => ~run[r].unconfirmed
    BY <1>17 DEF Confirms, PiTypeOK, Receipt
  <2>4. Running(r) /\ (Prompted(r)' => Prompted(r))
    BY <2>2 DEF Running, Prompted
  <2>5. Sound(run[r], child[r], spool, result) => Sound(run'[r], child'[r], spool', result')
    BY <2>1, <2>2, <2>3 DEF Sound, WithChild, portVars
  <2>. QED
    BY <1>0, <2>1, <2>2, <2>3, <2>4, <2>5, RunnerKeeps DEF portVars
<1>18. CASE Dies(r)
  <2>1. /\ \A q \in Runner : q # r => run'[q] = run[q]
        /\ run'[r].at = "gone"
        /\ run'[r].how = run[r].how /\ run'[r].heard = run[r].heard
        /\ run'[r].unconfirmed = run[r].unconfirmed
    BY <1>18, StepMoves DEF Dies
  <2>2. /\ UNCHANGED <<portVars, typed, ctl>>
        /\ spool'.owner = spool.owner /\ spool'.progress = spool.progress /\ spool'.terminate = spool.terminate
           /\ spool'.terminal = spool.terminal /\ spool'.clean = spool.clean /\ spool'.terminated = spool.terminated
    BY <1>18 DEF Dies, ByRunner, PiTypeOK, Receipt
  <2>3. child' = child
    BY <1>18 DEF Dies, PiTypeOK, Child
  <2>4. Running(r) /\ (Prompted(r)' => Prompted(r))
    BY <1>18, <2>3 DEF Dies, Running, Prompted, PiTypeOK, Child
  <2>5. Sound(run[r], child[r], spool, result) => Sound(run'[r], child'[r], spool', result')
    BY <1>18, <2>1, <2>2, <2>3, EmptyRecords DEF Sound, WithChild, Dies, portVars, PiTypeOK, Child
  <2>. QED
    BY <1>0, <2>1, <2>2, <2>3, <2>4, <2>5, RunnerKeeps DEF portVars
<1>19. CASE TakesPrompt(r)
  <2>1. /\ UNCHANGED <<adapter, phase, op, taken, result, spool, typed, run, ctl>>
        /\ child[r].life = "alive"
    BY <1>19 DEF TakesPrompt, ByChild
  <2>2. /\ \A q \in Runner : q # r => child'[q] = child[q]
        /\ child'[r].life = "alive" /\ child[r].inbox
    BY <1>19 DEF TakesPrompt, PiTypeOK, Child
  <2>3. Prompted(r)' => Prompted(r)
    BY <2>2 DEF Prompted
  <2>4. Sound(run[r], child[r], spool, result) => Sound(run'[r], child'[r], spool', result')
    BY <2>1, <2>2 DEF Sound, WithChild
  <2>. QED
    BY <1>0, <2>1, <2>2, <2>3, <2>4, RunnerKeeps DEF Spawned, Running
<1>20. CASE Works(r)
  <2>1. /\ UNCHANGED <<adapter, phase, op, taken, spool, typed, run, ctl, child>>
        /\ child[r].life = "alive" /\ child[r].agent # "fresh"
        /\ result' \in Nat /\ result' # 0
    BY <1>20 DEF Works, ByChild, WritesResult, PortTypeOK
  <2>2. Sound(run[r], child[r], spool, result)
    <3>1. spool.owner = r /\ r # Nobody
      BY <2>1 DEF PiInv, OwnerInv, Spawned
    <3>. QED
      BY <3>1, OwnerIsSound
  <2>3. spool.terminal # "ok" /\ Sound(run'[r], child'[r], spool', result')
    BY <2>1, <2>2 DEF Sound, WithChild
  <2>. QED
    BY <1>0, <2>1, <2>3, RunnerKeeps DEF Spawned, Running, Prompted
<1>21. CASE Says(r)
  <2>0. PICK e \in Events :
          /\ e # "violation" => child[r].agent = "working"
          /\ child' = [child EXCEPT ![r] = [child[r] EXCEPT !.said = child[r].said \union {e},
                                                !.agent = IF e = "settled" THEN e ELSE child[r].agent]]
    BY <1>21 DEF Says
  <2>1. child' = [child EXCEPT ![r] = [child[r] EXCEPT !.said = child[r].said \union {e},
                                             !.agent = IF e = "settled" THEN e ELSE child[r].agent]]
    BY <2>0
  <2>2. /\ UNCHANGED <<adapter, phase, op, taken, result, spool, typed, run, ctl>>
        /\ child[r].life = "alive"
    BY <1>21 DEF Says, ByChild
  <2>3. /\ \A q \in Runner : q # r => child'[q] = child[q]
        /\ child'[r].life = "alive" /\ child'[r].inbox = child[r].inbox
    BY <2>1, <2>2 DEF PiTypeOK, Child
  <2>4. child'[r].agent = "fresh" \/ child[r].agent # "fresh"
    <3>1. e # "violation" => child[r].agent = "working"
      BY <2>0
    <3>2. child'[r].agent = IF e = "settled" THEN e ELSE child[r].agent
      BY <2>1 DEF PiTypeOK, Child
    <3>. QED
      BY <3>1, <3>2
  <2>5. Prompted(r)' => Prompted(r)
    BY <2>3, <2>4 DEF Prompted
  <2>6. Sound(run[r], child[r], spool, result) => Sound(run'[r], child'[r], spool', result')
    BY <2>2, <2>3, <2>4 DEF Sound, WithChild
  <2>. QED
    BY <1>0, <2>2, <2>3, <2>5, <2>6, RunnerKeeps DEF Spawned, Running
<1>22. CASE Exits(r)
  <2>1. /\ UNCHANGED <<adapter, phase, op, taken, result, spool, typed, run, ctl>>
        /\ child[r].life = "alive"
    BY <1>22 DEF Exits, ByChild
  <2>2. /\ \A q \in Runner : q # r => child'[q] = child[q]
        /\ child'[r].life = "dead" /\ child'[r].said = child[r].said /\ child'[r].agent = child[r].agent
        /\ child'[r].inbox = child[r].inbox
    BY <1>22 DEF Exits, PiTypeOK, Child
  <2>3. Prompted(r)' => Prompted(r)
    BY <2>2 DEF Prompted
  <2>4. Sound(run[r], child[r], spool, result) => Sound(run'[r], child'[r], spool', result')
    BY <2>1, <2>2 DEF Sound, WithChild
  <2>. QED
    BY <1>0, <2>1, <2>2, <2>3, <2>4, RunnerKeeps DEF Spawned, Running
<1>23. CASE RecordsItself(r)
  <2>1. /\ \A q \in Runner : q # r => run'[q] = run[q]
        /\ run'[r].at = "owned"
        /\ run'[r].how = run[r].how /\ run'[r].heard = run[r].heard
        /\ run'[r].unconfirmed = run[r].unconfirmed
    BY <1>23, StepMoves DEF RecordsItself
  <2>2. /\ UNCHANGED <<portVars, typed, ctl>>
        /\ spool'.owner = spool.owner /\ spool'.terminate = spool.terminate /\ spool'.terminal = spool.terminal
        /\ spool'.clean = spool.clean /\ spool'.terminated = spool.terminated
    BY <1>23 DEF RecordsItself, ByRunner, PiTypeOK, Receipt
  <2>3. child' = child /\ run[r].at = "owner"
    BY <1>23 DEF RecordsItself
  <2>4. Running(r) /\ (Prompted(r)' => Prompted(r))
    BY <2>3 DEF Running, Prompted
  <2>5. Sound(run[r], child[r], spool, result) => Sound(run'[r], child'[r], spool', result')
    BY <2>1, <2>2, <2>3, EmptyRecords DEF Sound, WithChild, portVars
  <2>. QED
    BY <1>0, <2>1, <2>2, <2>3, <2>4, <2>5, RunnerKeeps DEF portVars
<1>. QED
  BY <1>1, <1>2, <1>3, <1>4, <1>5, <1>6, <1>7, <1>8, <1>9, <1>10, <1>11, <1>12, <1>13, <1>14, <1>15, <1>16, <1>17,
     <1>18, <1>19, <1>20, <1>21, <1>22, <1>23 DEF PiRunner

-----------------------------------------------------------------------------
(* The Controller inside its operation.                                     *)

\* What of the spool the Controller leaves as it is.
KeepsReceipts ==
    /\ spool' \in Receipt
    /\ spool'.owner = spool.owner /\ spool'.progress = spool.progress
    /\ spool'.terminal = spool.terminal /\ spool'.clean = spool.clean
    /\ spool.terminate => spool'.terminate

\* No agent is at work.
NobodyWorks == \A r \in Runner : child[r].life = "alive" => ~Prompted(r)

\* The operations below a pane.
BelowPane == {"start", "prompt", "wait", "end"}

\* What a step of the Controller may do to the processes, to keep PiInv.
LEMMA ControllerKeeps ==
    ASSUME PiTypeOK, PiTypeOK', PiInv, adapter = "pi-rpc", UNCHANGED <<adapter, result>>,
           \A q \in Runner : \/ run'[q] = run[q]
                             \/ run[q].at # "none" /\ run'[q] = [run[q] EXCEPT !.at = "gone"],
           \A q \in Runner : \/ child'[q] = child[q]
                             \/ /\ q = spool.owner /\ run'[q].at = "gone"
                                /\ child'[q] = [child[q] EXCEPT !.life = "dead"],
           KeepsReceipts,
           spool'.terminated = "ok" => spool.terminated = "ok" \/ (NobodyWorks /\ spool.terminate),
           \A q \in typed' : q \in typed \/ run[q].at = "none",
           OperationInv',
           taken' # 0 => taken' = result /\ spool.terminal = "ok",
           phase' # "prepared",
           phase' = "closed" => NobodyWorks /\ typed' = {} /\ \A q \in Runner : ~Running(q)'
    PROVE  PiInv'
<1>1. \A q \in Runner :
        /\ \/ run'[q] = run[q]
           \/ /\ run[q].at # "none" /\ run'[q].at = "gone" /\ run'[q].how = run[q].how
              /\ run'[q].heard = run[q].heard /\ run'[q].unconfirmed = run[q].unconfirmed
        /\ \/ child'[q] = child[q]
           \/ /\ q = spool.owner /\ run'[q].at = "gone" /\ child'[q].life = "dead" /\ child'[q].said = child[q].said
              /\ child'[q].agent = child[q].agent /\ child'[q].inbox = child[q].inbox
  BY DEF PiTypeOK, Process, Child
<1>2. \A q \in Runner : Prompted(q)' <=> Prompted(q)
  BY <1>1 DEF Prompted
<1>3. \A q \in Runner : Running(q)' => Running(q) /\ run'[q] = run[q]
  BY <1>1 DEF Running
<1>. HIDE DEF KeepsReceipts, NobodyWorks
<1>4. OwnerInv'
  <2>1. \A q \in Runner : Running(q)' \/ Spawned(q)' => spool'.owner = q
    BY <1>1, <1>3 DEF PiInv, OwnerInv, Spawned, KeepsReceipts
  <2>. QED
    BY <1>1, <1>2, <2>1 DEF PiInv, OwnerInv, KeepsReceipts, Spawned, PiTypeOK, Receipt
<1>5. ChildInv'
  BY <1>1 DEF PiInv, ChildInv, ChildGone
<1>6. TerminalInv'
  BY <1>1 DEF PiInv, TerminalInv, KeepsReceipts, PiTypeOK, Receipt
<1>7. spool'.terminated = "ok" => Quiet'
  <2>1. NobodyWorks => NobodyWorks'
    BY <1>1, <1>2 DEF NobodyWorks
  <2>2. CASE spool.terminated = "ok" /\ Quiet
    <3>1. NobodyWorks'
      BY <2>1, <2>2 DEF Quiet, NobodyWorks
    <3>2. ASSUME spool.owner # Nobody, ~Running(spool.owner)
          PROVE  spool'.owner # Nobody /\ run'[spool'.owner].at \in {"none", "gone"}
      <4>1. PICK owner \in Runner : owner = spool.owner
        BY <3>2 DEF PiTypeOK, Receipt
      <4>. QED
        BY <1>3, <3>2, <4>1 DEF KeepsReceipts, Running
    <3>. QED
      BY <2>2, <3>1, <3>2 DEF Quiet, NobodyWorks, KeepsReceipts, Running
  <2>3. CASE NobodyWorks /\ spool.terminate
    BY <2>1, <2>3 DEF Quiet, NobodyWorks, KeepsReceipts
  <2>. QED
    BY <2>2, <2>3 DEF PiInv
<1>8. phase' = "closed" => \A q \in Runner : ~Running(q)' /\ (child'[q].life = "alive" => ~Prompted(q)')
  BY <1>1, <1>2 DEF NobodyWorks
<1>. QED
  BY <1>4, <1>5, <1>6, <1>7, <1>8 DEF PiInv, KeepsReceipts

\* What every step of the Controller comes to.
Advanced ==
    /\ PortTypeOK' /\ PiTypeOK' /\ PhaseInv' /\ PiInv'
    /\ phase' # "prepared" /\ (open' => open) /\ adapter' = adapter

\* An operation that has not begun to wait, or has ended, waits for nothing.
LEMMA IdleWaits == ctl' = Idle => OperationInv' /\ ctl' \in Waiting
BY EmptyRecords DEF OperationInv, Idle

\* An operation goes on, fails, or succeeds, and the pane stays or is closed.
LEMMA Concludes ==
    ASSUME PortTypeOK, PiTypeOK, PhaseInv, PiInv, adapter = "pi-rpc", op \in BelowPane, ByController,
           Failed \/ Succeeded \/ UNCHANGED <<phase, op, taken>>,
           ctl' \in Waiting, OperationInv', KeepsReceipts,
           spool'.terminated = "ok" => spool.terminated = "ok" \/ (NobodyWorks /\ spool.terminate),
           \/ ClosesPane
           \/ /\ UNCHANGED <<open, run>> /\ typed' \subseteq Runner
              /\ \A q \in typed' : q \in typed \/ run[q].at = "none",
           op = "end" /\ op' = "none" => Failed \/ (ClosesPane /\ NobodyWorks),
           op = "wait" /\ op' = "end" => spool.terminal = "ok"
    PROVE  Advanced
<1>. USE DEF BelowPane
<1>1. phase # "prepared" /\ phase # "closed" /\ phase \in Phases /\ op # "none"
  BY DEF PhaseInv, PortTypeOK
<1>2. PortTypeOK'
  <2>1. phase' \in Phases /\ op' \in Operations /\ taken' \in 0..MaxResults
    BY <1>1 DEF PortTypeOK, Failed, Succeeded, Phases, Operations
  <2>2. open' \in BOOLEAN
    BY DEF PortTypeOK, ClosesPane
  <2>. QED
    BY <2>1, <2>2 DEF PortTypeOK, ByController
<1>3. phase' # "prepared"
  BY <1>1 DEF Failed, Succeeded
<1>4. PhaseInv'
  BY DEF PhaseInv, Failed, Succeeded
<1>5. /\ run' \in [Runner -> Process] /\ typed' \subseteq Runner
      /\ \A q \in Runner : \/ run'[q] = run[q]
                           \/ run[q].at # "none" /\ run'[q] = [run[q] EXCEPT !.at = "gone"]
      /\ \A q \in typed' : q \in typed \/ run[q].at = "none"
  <2>1. CASE ClosesPane
    <3>1. \A q \in Runner : [run[q] EXCEPT !.at = "gone"] \in Process
      BY DEF PiTypeOK, Process, Stages
    <3>. QED
      BY <2>1, <3>1 DEF ClosesPane, PiTypeOK, Running
  <2>2. CASE ~ClosesPane
    BY <2>2 DEF PiTypeOK
  <2>. QED
    BY <2>1, <2>2
<1>6. PiTypeOK'
  BY <1>5 DEF PiTypeOK, KeepsReceipts, ByController
<1>7. taken' # 0 => taken' = result /\ spool.terminal = "ok"
  BY DEF PiInv, Failed, Succeeded
<1>8. ASSUME phase' = "closed"
      PROVE  NobodyWorks /\ typed' = {} /\ \A q \in Runner : ~Running(q)'
  <2>1. ClosesPane /\ NobodyWorks
    BY <1>1, <1>8 DEF Failed, Succeeded
  <2>2. \A q \in Runner : run'[q].at \in {"none", "gone"}
    BY <2>1 DEF ClosesPane, Running, PiTypeOK, Process
  <2>. QED
    BY <2>1, <2>2 DEF ClosesPane, Running
<1>9. PiInv'
  BY <1>3, <1>5, <1>6, <1>7, <1>8, ControllerKeeps DEF ByController
<1>. QED
  BY <1>2, <1>3, <1>4, <1>6, <1>9 DEF Advanced, ByController, ClosesPane

\* The end of a cleanup: whoever confirms it knows that nobody works any more.
LEMMA CleansUpKeeps ==
    ASSUME PortTypeOK, PiTypeOK, PhaseInv, PiInv, adapter = "pi-rpc", op \in BelowPane, ByController,
           NEW confirmed \in BOOLEAN, CleansUp(confirmed), confirmed => NobodyWorks,
           ctl \in Waiting, KeepsReceipts,
           spool'.terminated = "ok" => spool.terminated = "ok" \/ (confirmed /\ spool.terminate)
    PROVE  Advanced
<1>. USE DEF BelowPane
<1>1. CASE ctl' = Idle /\ Failed /\ (ClosesPane \/ UNCHANGED <<open, typed, run>>)
  BY <1>1, IdleWaits, Concludes DEF Failed, PiTypeOK
<1>2. CASE confirmed /\ ClosesPane /\ op = "end" /\ Succeeded /\ ctl' = Idle
  BY <1>2, IdleWaits, Concludes
<1>3. CASE confirmed /\ ClosesPane /\ op = "wait" /\ Awaits("observe") /\ UNCHANGED <<phase, op, taken>>
  <2>1. ctl' \in Waiting /\ ctl'.at = "observe"
    BY <1>3 DEF Awaits, Waiting
  <2>2. OperationInv'
    BY <1>3, <2>1 DEF OperationInv, ByController
  <2>. QED
    BY <1>3, <2>1, <2>2, Concludes
<1>. QED
  BY <1>1, <1>2, <1>3 DEF CleansUp, Gives

\* An operation that hands over or gives up without having cleaned up.
LEMMA GivesKeeps ==
    ASSUME PortTypeOK, PiTypeOK, PhaseInv, PiInv, adapter = "pi-rpc", op \in BelowPane, ByController,
           GivesUp \/ Gives(Failed) \/ (op \in {"start", "prompt"} /\ Gives(Succeeded))
              \/ (op = "wait" /\ spool.terminal = "ok" /\ Gives(Succeeded)),
           KeepsReceipts, spool'.terminated = spool.terminated
    PROVE  Advanced
<1>1. ctl' = Idle /\ (ClosesPane \/ UNCHANGED <<open, typed, run>>)
  BY DEF GivesUp, Gives
<1>2. CASE Failed
  BY <1>1, <1>2, IdleWaits, Concludes DEF Failed, PiTypeOK
<1>3. CASE Succeeded /\ op \in {"start", "prompt", "wait"} /\ (op = "wait" => spool.terminal = "ok")
  BY <1>1, <1>3, IdleWaits, Concludes DEF Succeeded, PiTypeOK
<1>. QED
  BY <1>2, <1>3 DEF GivesUp, Gives

\* An operation that goes on.
LEMMA StaysKeeps ==
    ASSUME PortTypeOK, PiTypeOK, PhaseInv, PiInv, adapter = "pi-rpc", op \in BelowPane, ByController,
           Stays, ctl' \in Waiting, OperationInv', KeepsReceipts, spool'.terminated = spool.terminated
    PROVE  Advanced
BY Concludes DEF Stays, PiTypeOK

\* Every step of the Controller, by the operation it is in.
LEMMA ControllerAdvances ==
    ASSUME PortTypeOK, PiTypeOK, PhaseInv, PiInv, adapter = "pi-rpc", PiController
    PROVE  Advanced
<1>. USE DEF BelowPane
<1>0. spool \in Receipt /\ ctl \in Waiting /\ OperationInv
  BY DEF PiTypeOK, PiInv
<1>1. spool.owner = Nobody => NobodyWorks
  BY OwnerIsSound, EmptyRecords DEF NobodyWorks
<1>2. spool.terminated = "ok" => NobodyWorks
  BY DEF PiInv, Quiet, NobodyWorks
<1>3. UNCHANGED spool => KeepsReceipts
  BY <1>0 DEF KeepsReceipts
<1>4. ASSUME NEW receipt \in {"cleanup", "observe", "force"} \union Receipts, Awaits(receipt)
      PROVE  ctl' \in Waiting /\ ctl'.at = receipt
  BY <1>0, <1>4 DEF Awaits, Waiting
<1>5. CASE StartAgent
  <2>1. op = "start" /\ ByController
    BY <1>5 DEF StartAgent
  <2>2. KeepsReceipts /\ spool'.terminated = spool.terminated /\ spool'.terminate = spool.terminate
    BY <1>0, <1>5 DEF StartAgent, Receipt, KeepsReceipts
  <2>3. CASE GivesUp \/ Gives(Succeeded)
    BY <2>1, <2>2, <2>3, GivesKeeps
  <2>4. ASSUME NEW receipt \in {"cleanup", "ready"}, Awaits(receipt), Stays
        PROVE  Advanced
    <3>1. ctl' \in Waiting /\ ctl'.at = receipt
      BY <1>4, <2>4 DEF Receipts
    <3>2. OperationInv'
      BY <2>1, <2>4, <3>1 DEF OperationInv, Stays, ByController
    <3>. QED
      BY <2>1, <2>2, <2>4, <3>1, <3>2, StaysKeeps
  <2>. QED
    BY <1>5, <2>3, <2>4 DEF StartAgent
<1>6. CASE TypesRunner
  <2>1. op = "start" /\ ByController
    BY <1>6 DEF TypesRunner
  <2>2. KeepsReceipts /\ spool'.terminated = spool.terminated /\ spool'.terminate = spool.terminate
    BY <1>0, <1>6 DEF TypesRunner, Receipt, KeepsReceipts
  <2>3. CASE Gives(Failed)
    BY <2>1, <2>2, <2>3, GivesKeeps
  <2>4. CASE ~Gives(Failed)
    <3>1. /\ UNCHANGED <<open, run>>
          /\ \E r \in Runner : run[r].at = "none" /\ typed' = typed \union {r}
          /\ \/ Awaits("ready") /\ UNCHANGED <<phase, op, taken>>
             \/ Failed /\ ctl' = Idle
      BY <1>6, <2>4 DEF TypesRunner
    <3>2. typed' \subseteq Runner /\ \A q \in typed' : q \in typed \/ run[q].at = "none"
      BY <3>1 DEF PiTypeOK
    <3>3. CASE Awaits("ready") /\ UNCHANGED <<phase, op, taken>>
      <4>1. ctl' \in Waiting /\ ctl'.at = "ready"
        BY <1>4, <3>3 DEF Receipts
      <4>2. OperationInv'
        BY <2>1, <3>3, <4>1 DEF OperationInv, ByController
      <4>. QED
        BY <2>1, <2>2, <3>1, <3>2, <3>3, <4>1, <4>2, Concludes
    <3>4. CASE Failed /\ ctl' = Idle
      BY <2>1, <2>2, <3>1, <3>2, <3>4, IdleWaits, Concludes DEF Failed
    <3>. QED
      BY <3>1, <3>3, <3>4
  <2>. QED
    BY <2>3, <2>4
<1>7. CASE Dispatches
  <2>1. op = "prompt" /\ ByController /\ Stays
    BY <1>7 DEF Dispatches
  <2>2. KeepsReceipts /\ spool'.terminated = spool.terminated /\ spool'.terminate = spool.terminate
    <3>0. spool \in Receipt
      BY <1>0
    <3>1. spool' = spool \/ spool' = [spool EXCEPT !.dispatch = TRUE]
      BY <1>7 DEF Dispatches
    <3>2. CASE spool' = spool
      BY <3>0, <3>2 DEF KeepsReceipts
    <3>3. CASE spool' = [spool EXCEPT !.dispatch = TRUE]
      BY <3>0, <3>3 DEF Receipt, KeepsReceipts
    <3>. QED
      BY <3>1, <3>2, <3>3
  <2>3. PICK receipt \in {"cleanup", "accepted"} : Awaits(receipt)
    BY <1>7 DEF Dispatches
  <2>4. ctl' \in Waiting /\ ctl'.at = receipt
    BY <1>4, <2>3 DEF Receipts
  <2>5. OperationInv'
    BY <2>1, <2>4 DEF OperationInv, Stays, ByController
  <2>. QED
    BY <2>1, <2>2, <2>4, <2>5, StaysKeeps
<1>8. CASE WaitsForTerminal
  <2>1. op = "wait" /\ ByController /\ Stays /\ UNCHANGED spool
    BY <1>8 DEF WaitsForTerminal
  <2>2. PICK receipt \in {"cleanup", "terminal"} : Awaits(receipt)
    BY <1>8 DEF WaitsForTerminal
  <2>3. ctl' \in Waiting /\ ctl'.at = receipt
    BY <1>4, <2>2 DEF Receipts
  <2>4. OperationInv'
    BY <2>1, <2>3 DEF OperationInv, Stays, ByController
  <2>. QED
    BY <1>3, <2>1, <2>3, <2>4, StaysKeeps
<1>9. CASE Terminates
  <2>1. op = "end" /\ ByController /\ UNCHANGED spool
    BY <1>9 DEF Terminates
  <2>2. CASE Gives(Failed)
    BY <1>3, <2>1, <2>2, GivesKeeps
  <2>3. CASE Awaits("cleanup") /\ Stays
    <3>1. ctl' \in Waiting /\ ctl'.at = "cleanup"
      BY <1>4, <2>3
    <3>2. OperationInv'
      BY <2>1, <2>3, <3>1 DEF OperationInv, Stays, ByController
    <3>. QED
      BY <1>3, <2>1, <2>3, <3>1, <3>2, StaysKeeps
  <2>. QED
    BY <1>9, <2>2, <2>3 DEF Terminates
<1>10. CASE Polls
  <2>1. ctl.at \in Receipts /\ op \in BelowPane /\ ByController /\ UNCHANGED spool
    BY <1>0, <1>10 DEF Polls, OperationInv, Receipts
  <2>2. CASE ctl' = [ctl EXCEPT !.polled = TRUE] /\ Stays
    <3>1. ctl' \in Waiting /\ ctl'.at = ctl.at /\ ctl'.pids = ctl.pids
      BY <1>0, <2>2 DEF Waiting
    <3>2. OperationInv'
      BY <1>0, <2>1, <2>2, <3>1 DEF OperationInv, Stays, ByController, Prompted, Receipts
    <3>. QED
      BY <1>3, <2>1, <2>2, <3>1, <3>2, StaysKeeps
  <2>3. CASE ctl.at \in {"ready", "accepted"} /\ Gives(Succeeded)
    <3>1. op \in {"start", "prompt"}
      BY <1>0, <2>3 DEF OperationInv
    <3>. QED
      BY <1>3, <2>1, <2>3, <3>1, GivesKeeps
  <2>4. CASE ctl.at = "acked" /\ CleansUp(spool.terminated = "ok")
    BY <1>0, <1>2, <1>3, <2>1, <2>4, CleansUpKeeps DEF OperationInv
  <2>5. ASSUME NEW receipt \in {"cleanup", "terminated", "observe", "acked"}, Awaits(receipt), Stays,
               receipt = "acked" => ctl.at = "terminating",
               receipt \in {"terminated", "observe"} => ctl.at \in {"terminal", "terminated"}
        PROVE  Advanced
    <3>1. ctl' \in Waiting /\ ctl'.at = receipt
      BY <1>4, <2>5 DEF Receipts
    <3>2. OperationInv'
      BY <1>0, <2>1, <2>5, <3>1 DEF OperationInv, Stays, ByController
    <3>. QED
      BY <1>3, <2>1, <2>5, <3>1, <3>2, StaysKeeps
  <2>. QED
    BY <1>10, <2>1, <2>2, <2>3, <2>4, <2>5 DEF Polls, Receipts
<1>11. CASE LooksAtRunner
  <2>1. ctl.at \in Receipts /\ op \in BelowPane /\ ByController /\ Stays /\ UNCHANGED spool
    BY <1>0, <1>11 DEF LooksAtRunner, OperationInv, Receipts
  <2>2. PICK receipt \in {"cleanup", "force"} \union Receipts :
          /\ Awaits(receipt)
          /\ receipt \notin {"cleanup", "force"} => receipt = ctl.at
          /\ receipt = "force" => ctl.at \in {"terminating", "acked"}
    BY <1>11 DEF LooksAtRunner, Receipts
  <2>3. ctl' \in Waiting /\ ctl'.at = receipt
    BY <1>4, <2>2
  <2>4. OperationInv'
    BY <1>0, <2>1, <2>2, <2>3 DEF OperationInv, Stays, ByController, Receipts
  <2>. QED
    BY <1>3, <2>1, <2>3, <2>4, StaysKeeps
<1>12. CASE AsksToTerminate
  <2>1. ctl.at = "cleanup" /\ op \in BelowPane /\ ByController
    BY <1>0, <1>12 DEF AsksToTerminate, OperationInv
  <2>2. CASE spool.terminated # "none"
    BY <1>0, <1>2, <1>3, <1>12, <2>1, <2>2, CleansUpKeeps DEF AsksToTerminate, PiInv, Quiet
  <2>3. CASE spool.terminated = "none"
    <3>1. PICK at \in {"force", "terminating"}, observe \in BOOLEAN :
            ctl' = [ctl EXCEPT !.at = at, !.polled = FALSE, !.observe = observe]
      BY <1>12, <2>3 DEF AsksToTerminate
    <3>2. ctl' \in Waiting /\ ctl'.at = at
      BY <1>0, <3>1 DEF Waiting, Receipts
    <3>3. Stays /\ spool' = [spool EXCEPT !.terminate = TRUE]
      BY <1>12, <2>3 DEF AsksToTerminate
    <3>4. KeepsReceipts /\ spool'.terminated = spool.terminated /\ spool'.terminate
      BY <1>0, <3>3 DEF Receipt, KeepsReceipts
    <3>5. OperationInv'
      BY <1>0, <2>1, <3>2, <3>3, <3>4 DEF OperationInv, Stays, ByController
    <3>. QED
      BY <2>1, <3>2, <3>3, <3>4, <3>5, StaysKeeps
  <2>. QED
    BY <2>2, <2>3
<1>13. CASE Identifies
  <2>. DEFINE pids == {"runner" : o \in {spool.owner} \ {Nobody}}
                      \union {"child" : c \in {t \in {TRUE} : spool.progress = "child" \/ spool.ready}}
              known == spool.owner = Nobody \/ spool.progress # "absent" \/ spool.ready
  <2>1. ctl.at = "force" /\ op \in BelowPane /\ ByController /\ spool.terminate
    BY <1>0, <1>13 DEF Identifies, OperationInv
  <2>2. CASE pids # {}
    <3>1. ctl' = [ctl EXCEPT !.at = "kill", !.pids = pids, !.complete = known] /\ Stays /\ UNCHANGED spool
      BY <1>13, <2>2 DEF Identifies
    <3>2. pids \subseteq {"runner", "child"} /\ known \in BOOLEAN
      OBVIOUS
    <3>3. ctl' \in Waiting /\ ctl'.at = "kill" /\ ctl'.pids = pids
      <4>. HIDE DEF pids, known
      <4>. QED
        BY <1>0, <3>1, <3>2 DEF Waiting
    <3>4. \A r \in Runner : Prompted(r) => "child" \in pids
      BY DEF PiInv, OwnerInv
    <3>5. OperationInv'
      <4>. HIDE DEF pids, known
      <4>. QED
        BY <1>0, <2>1, <3>1, <3>3, <3>4 DEF OperationInv, Stays, ByController, Prompted
    <3>. QED
      BY <1>3, <2>1, <3>1, <3>3, <3>5, StaysKeeps
  <2>3. CASE pids = {}
    <3>1. spool' = (IF known THEN FallbackTerminated ELSE spool) /\ CleansUp(known)
      BY <1>13, <2>3 DEF Identifies
    <3>2. spool.owner = Nobody
      BY <2>3
    <3>3. KeepsReceipts /\ known \in BOOLEAN
      BY <1>0, <3>1 DEF KeepsReceipts, FallbackTerminated, Receipt
    <3>. HIDE DEF pids
    <3>. QED
      BY <1>0, <1>1, <2>1, <3>1, <3>2, <3>3, CleansUpKeeps
  <2>. QED
    BY <2>2, <2>3
<1>14. CASE Kills
  <2>1. /\ ctl.at = "kill" /\ op \in BelowPane /\ spool.terminate
        /\ ctl' = [ctl EXCEPT !.at = "check"] /\ run' = [run EXCEPT ![spool.owner].at = "gone"]
        /\ child' = child \/ ("child" \in ctl.pids /\ child' = [child EXCEPT ![spool.owner].life = "dead"])
        /\ UNCHANGED <<portVars, spool, typed>>
    BY <1>0, <1>14 DEF Kills, OperationInv
  <2>2. ctl' \in Waiting /\ ctl'.at = "check" /\ ctl'.pids = ctl.pids
    BY <1>0, <2>1 DEF Waiting
  <2>3. /\ run' \in [Runner -> Process] /\ child' \in [Runner -> Child]
        /\ \A q \in Runner : \/ run'[q] = run[q]
                             \/ run[q].at # "none" /\ run'[q] = [run[q] EXCEPT !.at = "gone"]
        /\ \A q \in Runner : \/ child'[q] = child[q]
                             \/ /\ q = spool.owner /\ run'[q].at = "gone"
                                /\ child'[q] = [child[q] EXCEPT !.life = "dead"]
    <3>0. run \in [Runner -> Process] /\ child \in [Runner -> Child]
      BY DEF PiTypeOK
    <3>1. CASE spool.owner \notin Runner
      <4>1. run' = run /\ child' = child
        BY <2>1, <3>0, <3>1
      <4>. QED
        BY <3>0, <4>1
    <3>2. CASE spool.owner \in Runner
      <4>1. PICK owner \in Runner : owner = spool.owner
        BY <3>2
      <4>2. run[owner].at # "none"
        BY <4>1 DEF PiInv, OwnerInv
      <4>3. [run[owner] EXCEPT !.at = "gone"] \in Process /\ [child[owner] EXCEPT !.life = "dead"] \in Child
            /\ [run[owner] EXCEPT !.at = "gone"].at = "gone"
        <5>1. run[owner] \in Process /\ child[owner] \in Child /\ "gone" \in Stages
          BY <3>0 DEF Stages
        <5>2. [run[owner] EXCEPT !.at = "gone"].at = "gone"
          BY <5>1 DEF Process
        <5>. QED
          BY <5>1, <5>2, ProcessEdits, ChildEdits
      <4>. QED
        BY <2>1, <4>1, <4>2, <4>3 DEF PiTypeOK
    <3>. QED
      BY <3>1, <3>2
  <2>4. PiTypeOK' /\ PortTypeOK' /\ PhaseInv'
    BY <2>1, <2>2, <2>3 DEF PiTypeOK, PortTypeOK, PhaseInv, portVars
  <2>5. OperationInv'
    <3>1. \A q \in Runner : Prompted(q)' => Prompted(q)
      BY <2>3 DEF Prompted, PiTypeOK, Child
    <3>. QED
      BY <1>0, <2>1, <2>2, <3>1 DEF OperationInv, portVars
  <2>6. taken' # 0 => taken' = result /\ spool.terminal = "ok"
    BY <2>1 DEF PiInv, portVars
  <2>7. phase' # "prepared" /\ phase' # "closed"
    BY <2>1 DEF PhaseInv, portVars
  <2>8. PiInv'
    BY <1>3, <2>1, <2>3, <2>4, <2>5, <2>6, <2>7, ControllerKeeps DEF portVars
  <2>. QED
    BY <2>1, <2>4, <2>7, <2>8 DEF Advanced, portVars
<1>15. CASE ChecksExit
  <2>. DEFINE confirmed == ExitConfirmed(spool.owner)
  <2>1. ctl.at = "check" /\ op \in BelowPane /\ ByController /\ spool.terminate
    BY <1>0, <1>15 DEF ChecksExit, OperationInv
  <2>2. spool' = (IF confirmed THEN FallbackTerminated ELSE spool) /\ CleansUp(confirmed)
    BY <1>15 DEF ChecksExit
  <2>3. KeepsReceipts /\ (spool'.terminated = "ok" => spool.terminated = "ok" \/ confirmed)
    <3>. HIDE DEF confirmed
    <3>. QED
      BY <1>0, <2>2 DEF KeepsReceipts, FallbackTerminated, Receipt
  <2>4. confirmed => NobodyWorks
    <3>1. SUFFICES ASSUME confirmed, NEW r \in Runner, child[r].life = "alive", Prompted(r) PROVE FALSE
      BY DEF NobodyWorks
    <3>2. "child" \in ctl.pids
      BY <1>0, <2>1, <3>1 DEF OperationInv
    <3>3. spool.owner = r
      BY <3>1 DEF PiInv, OwnerInv, Spawned
    <3>. QED
      BY <3>1, <3>2, <3>3 DEF ExitConfirmed
  <2>5. confirmed \in BOOLEAN
    BY <1>0 DEF ExitConfirmed, Running, Waiting
  <2>. HIDE DEF confirmed
  <2>. QED
    BY <1>0, <2>1, <2>2, <2>3, <2>4, <2>5, CleansUpKeeps
<1>16. CASE Observes
  <2>1. ctl.at = "observe" /\ op = "wait" /\ ByController /\ UNCHANGED spool
    BY <1>0, <1>16 DEF Observes, OperationInv
  <2>2. GivesUp \/ (spool.terminal = "ok" /\ Gives(Succeeded))
    BY <1>16 DEF Observes
  <2>. QED
    BY <1>3, <2>1, <2>2, GivesKeeps
<1>17. CASE RefusesToKill
  <2>1. ctl.at = "kill" /\ op \in BelowPane /\ ByController /\ UNCHANGED spool /\ CleansUp(FALSE)
    BY <1>0, <1>17 DEF RefusesToKill, OperationInv
  <2>2. KeepsReceipts
    BY <1>0, <2>1 DEF KeepsReceipts
  <2>. QED
    BY <1>0, <2>1, <2>2, CleansUpKeeps
<1>. QED
  BY <1>5, <1>6, <1>7, <1>8, <1>9, <1>10, <1>11, <1>12, <1>13, <1>14, <1>15, <1>16, <1>17 DEF PiController

-----------------------------------------------------------------------------
(* The port, the Herdr adapter and the whole.                               *)

\* A step that leaves the runner and its spool alone.
LEMMA PiUndisturbed ==
    ASSUME PiTypeOK, PiInv, UNCHANGED <<spool, typed, run, child, adapter>>, OperationInv',
           adapter = "pi-rpc" => result' = result /\ taken' \in {taken, 0},
           phase' = "prepared" => phase = "prepared",
           phase' = "closed" => phase \in {"prepared", "closed"} \/ adapter # "pi-rpc"
    PROVE  PiInv'
<1>1. OwnerInv' /\ ChildInv'
  BY DEF PiInv, OwnerInv, ChildInv, Running, Spawned, Prompted, ChildGone
<1>2. TerminalInv'
  BY DEF PiInv, TerminalInv
<1>3. spool'.terminated = "ok" => Quiet'
  BY DEF PiInv, Quiet, Running, Prompted
<1>4. adapter = "pi-rpc" /\ phase' = "closed" =>
        typed = {} /\ \A r \in Runner : ~Running(r) /\ (child[r].life = "alive" => ~Prompted(r))
  BY OwnerIsSound, EmptyRecords DEF PiInv, Running
<1>5. adapter' = "pi-rpc" /\ phase' = "closed" =>
        typed' = {} /\ \A r \in Runner : ~Running(r)' /\ (child'[r].life = "alive" => ~Prompted(r)')
  BY <1>4 DEF Running, Prompted
<1>. QED
  BY <1>1, <1>2, <1>3, <1>5 DEF PiInv

\* The inductive invariant: types, and why the properties hold.
RInv == TypeOK /\ RuntimeInv

\* What the driver does between the operations.
LEMMA PortKeeps == RInv /\ PortNext => RInv'
<1>. SUFFICES ASSUME RInv, PortNext PROVE RInv'
  OBVIOUS
<1>. USE DEF RInv, TypeOK, RuntimeInv
<1>1. UNCHANGED <<piVars, herdrVars, adapter, result, taken>>
  BY DEF PortNext, Begin, PaneTooLate, FindPane, CreatePane, Retire, Deadline
<1>2. PortTypeOK'
  <2>1. tabs' \in 0..2
    <3>1. tabs' = tabs \/ tabs' = 1
      BY DEF PortNext, Begin, PaneTooLate, FindPane, CreatePane, Retire, Deadline
    <3>. QED
      BY <3>1 DEF PortTypeOK
  <2>3. open' \in BOOLEAN /\ late' \in BOOLEAN
    BY Zenon DEF PortTypeOK, PortNext, Begin, PaneTooLate, FindPane, CreatePane, Retire, Deadline
  <2>2. phase' \in Phases /\ op' \in Operations
    BY DEF PortTypeOK, PortNext, Begin, PaneTooLate, FindPane, CreatePane, Retire, Deadline, Phases,
           Operations
  <2>. QED
    BY <1>1, <2>1, <2>2, <2>3 DEF PortTypeOK
<1>3. PiTypeOK' /\ HerdrTypeOK'
  BY <1>1 DEF PiTypeOK, HerdrTypeOK, piVars, herdrVars
<1>4. PhaseInv'
  BY DEF PhaseInv, PortNext, Begin, PaneTooLate, FindPane, CreatePane, Retire, Deadline
<1>5. /\ phase' = "prepared" => phase = "prepared"
      /\ phase' = "closed" => phase \in {"prepared", "closed"}
      /\ op' # op => op \in {"none", "pane"}
      /\ open' => open \/ (op = "pane" /\ phase = "prepared")
  BY DEF PhaseInv, PortNext, Begin, PaneTooLate, FindPane, CreatePane, Retire, Deadline
<1>6. OperationInv'
  BY <1>1, <1>5 DEF PiInv, OperationInv, Prompted, piVars
<1>7. PiInv'
  BY <1>1, <1>5, <1>6, PiUndisturbed DEF piVars
<1>8. HerdrInv'
  BY <1>1, <1>5 DEF HerdrInv, herdrVars
<1>. QED
  BY <1>2, <1>3, <1>4, <1>7, <1>8

\* The Pi RPC adapter, while its Controller lives.
LEMMA PiKeeps ==
    RInv /\ adapter = "pi-rpc" /\ (PiController \/ PiProcesses) /\ UNCHANGED herdrVars => RInv'
<1>. SUFFICES ASSUME RInv, adapter = "pi-rpc", PiController \/ PiProcesses, UNCHANGED herdrVars
              PROVE  RInv'
  OBVIOUS
<1>. USE DEF RInv, TypeOK, RuntimeInv
<1>1. PortTypeOK' /\ PiTypeOK' /\ PhaseInv' /\ PiInv' /\ (phase' = "prepared" => phase = "prepared")
      /\ (open' => open) /\ adapter' = adapter
  <2>1. CASE PiController
    BY <2>1, ControllerAdvances DEF Advanced
  <2>2. CASE PiProcesses
    <3>1. UNCHANGED <<adapter, phase, op, open>>
      <4>1. PICK r \in Runner : \/ PiRunner(r) \/ Dies(r) \/ TakesPrompt(r) \/ Works(r) \/ Says(r) \/ Exits(r)
        BY <2>2 DEF PiProcesses
      <4>2. CASE PiRunner(r)
        BY <4>2
        DEF PiRunner, ByRunner, portVars,
            TakesOwnership, RecordsItself, Spawns, RecordsChild, Handshakes, ReleasesLease, AwaitsDispatch, Expires,
            Accepts, Hears, Settles, Stalls, Interrupts, Stops, StopFails, Fails, Reports, Confirms
      <4>3. CASE Dies(r) \/ TakesPrompt(r) \/ Works(r) \/ Says(r) \/ Exits(r)
        BY <4>3 DEF Dies, Works, ByChild, ByRunner, portVars, TakesPrompt, Says, Exits
      <4>. QED
        BY <4>1, <4>2, <4>3
    <3>. QED
      BY <2>2, <3>1, ProcessTypes, ProcessesKeep DEF PhaseInv
  <2>. QED
    BY <2>1, <2>2
<1>2. HerdrTypeOK' /\ HerdrInv'
  BY <1>1 DEF HerdrTypeOK, HerdrInv, herdrVars
<1>. QED
  BY <1>1, <1>2

\* The Herdr adapter and the agent under the Herdr server.
LEMMA HerdrKeeps ==
    RInv /\ adapter = "herdr-pi-cli" /\ (HerdrController \/ HerdrAgent) /\ UNCHANGED piVars => RInv'
<1>. SUFFICES ASSUME RInv, adapter = "herdr-pi-cli", HerdrController \/ HerdrAgent, UNCHANGED piVars
              PROVE  RInv'
  OBVIOUS
<1>. USE DEF RInv, TypeOK, RuntimeInv
<1>1. ASSUME PortTypeOK', HerdrTypeOK', PhaseInv', HerdrInv', adapter' = adapter,
             phase' = "prepared" => phase = "prepared"
      PROVE  RInv'
  <2>1. PiTypeOK'
    BY DEF PiTypeOK, piVars
  <2>2. OperationInv'
    BY <1>1 DEF PiInv, OperationInv, piVars
  <2>3. PiInv'
    BY <1>1, <2>2, PiUndisturbed DEF piVars
  <2>. QED
    BY <1>1, <2>1, <2>3
<1>2. CASE HerdrAgent
  <2>1. /\ UNCHANGED <<adapter, phase, op, tabs, open, late, taken, intent, ended, ending>>
        /\ agent \notin {"none", "gone"} /\ agent' \in {agent, "idle", "working", "done", "blocked", "gone"}
        /\ result' = result \/ WritesResult
    BY <1>2 DEF HerdrAgent, AgentSettles, AgentIsAnswered, AgentWrites, AgentExits, ByAgent
  <2>2. PortTypeOK'
    BY <2>1 DEF PortTypeOK, WritesResult
  <2>3. HerdrTypeOK' /\ PhaseInv' /\ HerdrInv'
    <3>1. answered' = answered \/ answered' = TRUE
      BY <1>2 DEF HerdrAgent, AgentSettles, AgentIsAnswered, AgentWrites, AgentExits
    <3>2. answered' \in BOOLEAN
      BY <3>1, Zenon DEF HerdrTypeOK
    <3>. QED
      BY <2>1, <3>2 DEF HerdrTypeOK, PhaseInv, HerdrInv
  <2>. QED
    BY <1>1, <2>1, <2>2, <2>3
<1>3. CASE HerdrController
  <2>1. /\ op \in {"start", "prompt", "wait", "end"} /\ UNCHANGED <<adapter, tabs, late, result, answered>>
        /\ open' \in {open, FALSE}
        /\ Failed \/ Succeeded \/ UNCHANGED <<phase, op, taken>>
    BY <1>3
    DEF HerdrController, HerdrStartsAgent, HerdrPrompts, HerdrTooLate, HerdrStalls, HerdrObserves,
        HerdrEnds, RecordsIntent, ClosesAgentPane, ConfirmsAgentGone, Calls, ByHerdr, Ends, EndsFor,
        EndConfirmed, HerdrInv, Failed, Succeeded
  <2>2. phase # "prepared" /\ phase # "closed"
    BY <2>1 DEF PhaseInv
  <2>3. PortTypeOK'
    <3>1. phase' \in Phases /\ op' \in Operations /\ taken' \in 0..MaxResults
      BY <2>1 DEF PortTypeOK, Failed, Succeeded, Phases, Operations
    <3>2. open' \in BOOLEAN
      BY <2>1 DEF PortTypeOK
    <3>. QED
      BY <2>1, <3>1, <3>2 DEF PortTypeOK
  <2>4. PhaseInv' /\ phase' # "prepared"
    BY <2>1, <2>2 DEF PhaseInv, Failed, Succeeded
  <2>5. HerdrTypeOK'
    <3>1. /\ agent' \in {agent, "idle", "working"} /\ ended' \in {ended, "ok", "failed"}
          /\ intent' \in {intent, ending.reason}
      BY <1>3
      DEF HerdrController, HerdrStartsAgent, HerdrPrompts, HerdrTooLate, HerdrStalls, HerdrObserves,
          HerdrEnds, RecordsIntent, ClosesAgentPane, ConfirmsAgentGone
    <3>2. ending' \in [at : {"none", "intent", "close", "exit"}, reason : Reasons \union {"none"}]
      <4>1. NotEnding \in [at : {"none", "intent", "close", "exit"}, reason : Reasons \union {"none"}]
        BY DEF NotEnding
      <4>2. \A where \in {"close", "exit"} :
              [ending EXCEPT !.at = where] \in [at : {"none", "intent", "close", "exit"},
                reason : Reasons \union {"none"}]
        BY DEF HerdrTypeOK
      <4>3. \A reason \in Reasons : [at |-> "intent", reason |-> reason]
                \in [at : {"none", "intent", "close", "exit"}, reason : Reasons \union {"none"}]
        OBVIOUS
      <4>4. \/ ending' = NotEnding \/ \E reason \in Reasons : ending' = [at |-> "intent", reason |-> reason]
            \/ \E where \in {"close", "exit"} : ending' = [ending EXCEPT !.at = where]
        BY <1>3
        DEF HerdrController, HerdrStartsAgent, HerdrPrompts, HerdrTooLate, HerdrStalls, HerdrObserves,
            HerdrEnds, RecordsIntent, ClosesAgentPane, ConfirmsAgentGone, Ends, EndsFor, EndConfirmed,
            Reasons
      <4>. QED
        BY <4>1, <4>2, <4>3, <4>4
    <3>3. intent' \in Reasons \union {"none"}
      BY <3>1 DEF HerdrTypeOK
    <3>. QED
      BY <2>1, <3>1, <3>2, <3>3 DEF HerdrTypeOK
  <2>6. HerdrInv'
    <3>. USE DEF HerdrInv, HerdrTypeOK, NotEnding, Ends, EndsFor, EndConfirmed, Calls, ByHerdr, Failed, Succeeded
    <3>0. NotEnding.at = "none" /\ \A reason \in Reasons : [at |-> "intent", reason |-> reason].at = "intent"
      OBVIOUS
    <3>1. CASE HerdrStartsAgent
      BY <2>2, <2>4, <3>0, <3>1 DEF HerdrStartsAgent
    <3>2. CASE HerdrPrompts
      BY <2>1, <2>2, <2>4, <3>0, <3>2 DEF HerdrPrompts
    <3>3. CASE HerdrTooLate
      BY <2>1, <2>2, <2>4, <3>0, <3>3 DEF HerdrTooLate
    <3>4. CASE HerdrStalls
      BY <2>1, <2>2, <2>4, <3>0, <3>4 DEF HerdrStalls
    <3>5. CASE HerdrObserves
      BY <2>1, <2>2, <2>4, <3>0, <3>5 DEF HerdrObserves
    <3>6. CASE HerdrEnds
      BY <2>1, <2>2, <2>4, <3>0, <3>6 DEF HerdrEnds
    <3>7. CASE RecordsIntent
      BY <2>1, <2>2, <2>4, <3>0, <3>7 DEF RecordsIntent
    <3>8. CASE ClosesAgentPane
      BY <2>1, <2>2, <2>4, <3>0, <3>8 DEF ClosesAgentPane
    <3>9. CASE ConfirmsAgentGone
      BY <2>1, <2>2, <2>4, <3>0, <3>9 DEF ConfirmsAgentGone
    <3>. QED
      BY <1>3, <3>1, <3>2, <3>3, <3>4, <3>5, <3>6, <3>7, <3>8, <3>9 DEF HerdrController
  <2>. QED
    BY <1>1, <2>1, <2>3, <2>4, <2>5, <2>6
<1>. QED
  BY <1>2, <1>3

\* The Controller dies inside its operation, and begins it again from the ledger.
LEMMA CrashesKeep == RInv /\ Crashes => RInv'
<1>. SUFFICES ASSUME RInv, Crashes PROVE RInv'
  OBVIOUS
<1>. USE DEF RInv, TypeOK, RuntimeInv
<1>1. /\ op' = "none" /\ taken' = 0 /\ ctl' \in {ctl, Idle} /\ ending' \in {ending, NotEnding}
      /\ UNCHANGED <<adapter, phase, tabs, open, late, result, spool, typed, run, child>>
      /\ UNCHANGED <<agent, answered, intent, ended>>
      /\ ctl' = Idle \/ adapter = "herdr-pi-cli"
      /\ ending' = NotEnding \/ adapter = "pi-rpc"
  BY DEF Crashes, ControllerDies, HerdrControllerDies, piVars, herdrVars
<1>2. PortTypeOK'
  BY <1>1 DEF PortTypeOK, Operations
<1>3. PiTypeOK'
  BY <1>1, EmptyRecords DEF PiTypeOK
<1>4. HerdrTypeOK'
  BY <1>1 DEF HerdrTypeOK, NotEnding
<1>5. PhaseInv'
  BY <1>1 DEF PhaseInv
<1>6. OperationInv'
  <2>1. ctl.at = "none" \/ ctl' = Idle
    BY <1>1 DEF PiInv, OperationInv
  <2>2. CASE ctl' = Idle
    BY <2>2, IdleWaits
  <2>3. CASE ctl.at = "none" /\ ctl' = ctl
    BY <2>3 DEF OperationInv
  <2>. QED
    BY <1>1, <2>1, <2>2, <2>3
<1>7. PiInv'
  BY <1>1, <1>6, PiUndisturbed
<1>8. HerdrInv'
  BY <1>1 DEF HerdrInv, NotEnding
<1>. QED
  BY <1>2, <1>3, <1>4, <1>5, <1>7, <1>8

\* The invariant of the Attempt under either runtime.
LEMMA RuntimeInvariant == Spec => []RInv
<1>1. Init => RInv
  <2>. SUFFICES ASSUME Init PROVE RInv
    OBVIOUS
  <2>1. PortTypeOK /\ HerdrTypeOK /\ PhaseInv /\ HerdrInv
    <3>1. PortTypeOK
      <4>1. tabs \in 0..2 /\ result \in 0..MaxResults /\ taken \in 0..MaxResults
        BY DEF Init, PortInit
      <4>2. open \in BOOLEAN /\ late \in BOOLEAN
        BY Zenon DEF Init, PortInit
      <4>3. adapter \in {"pi-rpc", "herdr-pi-cli"} /\ phase \in Phases /\ op \in Operations
        BY DEF Init, PortInit, Phases, Operations
      <4>. QED
        BY <4>1, <4>2, <4>3 DEF PortTypeOK
    <3>2. HerdrTypeOK /\ HerdrInv
      BY DEF Init, PortInit, HerdrInit, HerdrTypeOK, HerdrInv, NotEnding, Reasons
    <3>. QED
      BY <3>1, <3>2 DEF Init, PortInit, PhaseInv
  <2>2. PiTypeOK
    BY EmptyRecords DEF Init, PiInit, PiTypeOK, Receipt
  <2>3. /\ spool.owner = Nobody /\ spool.terminal = "none" /\ spool.terminated = "none"
        /\ typed = {} /\ ctl.at = "none" /\ taken = 0 /\ phase = "prepared"
        /\ \A r \in Runner : run[r].at = "none" /\ child[r] = NoChild
    BY DEF Init, PortInit, PiInit, NoProcess, Idle
  <2>4. OwnerInv /\ ChildInv /\ TerminalInv /\ OperationInv
    BY <2>3, EmptyRecords
    DEF OwnerInv, ChildInv, TerminalInv, OperationInv, Running, Spawned, Prompted, ChildGone
  <2>. QED
    BY <2>1, <2>2, <2>3, <2>4 DEF RInv, TypeOK, RuntimeInv, PiInv
<1>2. RInv /\ [Next]_vars => RInv'
  <2>. SUFFICES ASSUME RInv, [Next]_vars PROVE RInv'
    OBVIOUS
  <2>1. CASE UNCHANGED vars
    <3>1. UNCHANGED portVars /\ UNCHANGED piVars /\ UNCHANGED herdrVars
      BY <2>1 DEF vars
    <3>2. PortTypeOK' /\ PiTypeOK' /\ HerdrTypeOK' /\ PhaseInv' /\ HerdrInv'
      BY <3>1 DEF RInv, TypeOK, RuntimeInv, PortTypeOK, PiTypeOK, HerdrTypeOK, PhaseInv, HerdrInv,
                  portVars, piVars, herdrVars
    <3>3. OperationInv'
      BY <3>1 DEF RInv, RuntimeInv, PiInv, OperationInv, portVars, piVars, Prompted
    <3>4. PiInv'
      BY <3>1, <3>3, PiUndisturbed DEF RInv, TypeOK, RuntimeInv, portVars, piVars
    <3>. QED
      BY <3>2, <3>4 DEF RInv, TypeOK, RuntimeInv
  <2>2. CASE PortNext
    BY <2>2, PortKeeps
  <2>3. CASE Acts \/ Runs
    BY <2>3, PiKeeps, HerdrKeeps DEF Acts, Runs
  <2>4. CASE Crashes
    BY <2>4, CrashesKeep
  <2>. QED
    BY <2>1, <2>2, <2>3, <2>4 DEF Next
<1>. QED
  BY <1>1, <1>2, PTL DEF Spec

-----------------------------------------------------------------------------
(* The contract: one turn, and a result that stays.                         *)

\* An agent has the prompt.
HasPrompt(r) == child[r].life = "alive" /\ Prompted(r)

\* What a step below the Controller does to its agents: whoever has the prompt had it, or
\* is the owner's agent, prompted for the first time by a runner that is there.
Turns ==
    /\ \A q \in Runner : Prompted(q) => Prompted(q)'
    /\ \A q \in Runner : Prompted(q)' => Prompted(q) \/ Running(q)
    /\ \A q \in Runner : HasPrompt(q)' => HasPrompt(q) \/ ~Prompted(q)
    /\ \A q \in Runner : "settled" \in child'[q].said => "settled" \in child[q].said \/ Prompted(q)'

\* A process that steps: one child moves, and only an agent at work writes.
LEMMA ProcessesTurn ==
    ASSUME PortTypeOK, PiTypeOK, PiInv, PiProcesses
    PROVE  /\ Turns /\ UNCHANGED <<adapter, phase, op, taken>>
           /\ \/ result' = result
              \/ /\ result' = result + 1 /\ UNCHANGED child
                 /\ \E r \in Runner : HasPrompt(r)
<1>. PICK r \in Runner : \/ PiRunner(r) \/ Dies(r) \/ TakesPrompt(r) \/ Works(r) \/ Says(r) \/ Exits(r)
  BY DEF PiProcesses
<1>0. child \in [Runner -> Child]
  BY DEF PiTypeOK
<1>1. ASSUME NEW q \in Runner, child'[q] = child[q]
      PROVE  (Prompted(q)' <=> Prompted(q)) /\ (HasPrompt(q)' <=> HasPrompt(q))
  BY <1>1 DEF HasPrompt, Prompted
<1>2. ASSUME \A q \in Runner : q # r => child'[q] = child[q],
             Prompted(r) => Prompted(r)', Prompted(r)' => Prompted(r) \/ Running(r),
             HasPrompt(r)' => HasPrompt(r) \/ ~Prompted(r),
             "settled" \in child'[r].said => "settled" \in child[r].said \/ Prompted(r)'
      PROVE  Turns
  BY <1>1, <1>2 DEF Turns
<1>3. UNCHANGED <<adapter, phase, op, taken>>
  BY DEF PiRunner, Dies, Works, ByChild, ByRunner, portVars, TakesPrompt, Says, Exits,
         TakesOwnership, RecordsItself, Spawns, RecordsChild,
         Handshakes, ReleasesLease, AwaitsDispatch, Expires, Accepts,
         Hears, Settles, Stalls, Interrupts, Stops, StopFails, Fails, Reports, Confirms
<1>4. \/ result' = result
      \/ result' = result + 1 /\ UNCHANGED child /\ HasPrompt(r)
  <2>1. CASE Works(r)
    BY <2>1 DEF Works, WritesResult, HasPrompt, Prompted
  <2>2. CASE ~Works(r)
    BY <2>2
    DEF PiRunner, Dies, ByChild, ByRunner, portVars, TakesPrompt, Says, Exits,
        TakesOwnership, RecordsItself, Spawns, RecordsChild,
        Handshakes, ReleasesLease, AwaitsDispatch, Expires, Accepts,
        Hears, Settles, Stalls, Interrupts, Stops, StopFails, Fails, Reports, Confirms
  <2>. QED
    BY <2>1, <2>2
<1>5. ASSUME UNCHANGED child PROVE Turns
  BY <1>5 DEF Turns, Prompted, HasPrompt
<1>6. ASSUME Spawns(r) PROVE Turns
  <2>1. child' = [child EXCEPT ![r] = [child[r] EXCEPT !.life = "alive"]] /\ child[r] = NoChild
    BY <1>6 DEF Spawns, PiInv, OwnerInv
  <2>2. child'[r].agent = "fresh" /\ child'[r].inbox = FALSE /\ child'[r].said = child[r].said /\ ~Prompted(r)
    BY <1>0, <2>1 DEF NoChild, Prompted
  <2>. QED
    BY <1>0, <1>2, <2>1, <2>2 DEF Prompted, HasPrompt, Running
<1>7. ASSUME AwaitsDispatch(r) /\ ~UNCHANGED child PROVE Turns
  <2>1. child' = [child EXCEPT ![r].inbox = TRUE] /\ Running(r)
    BY <1>7 DEF AwaitsDispatch, Running
  <2>2. child'[r].inbox /\ child'[r].life = child[r].life /\ child'[r].said = child[r].said
    BY <1>0, <2>1 DEF Child
  <2>. QED
    BY <1>0, <1>2, <2>1, <2>2 DEF Prompted, HasPrompt, Running
<1>8. ASSUME TakesPrompt(r) PROVE Turns
  <2>1. /\ child' = [child EXCEPT ![r] = [@ EXCEPT !.inbox = FALSE, !.agent = "working"]]
        /\ child[r].life = "alive" /\ Prompted(r)
    BY <1>8 DEF TakesPrompt, Prompted
  <2>2. child'[r].agent = "working" /\ child'[r].life = child[r].life /\ child'[r].said = child[r].said
    BY <1>0, <2>1 DEF Child
  <2>. QED
    BY <1>0, <1>2, <2>1, <2>2 DEF Prompted, HasPrompt, Running
<1>9. ASSUME Says(r) PROVE Turns
  <2>1. PICK e \in Events :
          /\ child[r].life = "alive" /\ (e # "violation" => child[r].agent = "working")
          /\ child' = [child EXCEPT ![r] = [@ EXCEPT !.said = child[r].said \union {e},
                                                     !.agent = IF e = "settled" THEN e ELSE child[r].agent]]
    BY <1>9 DEF Says
  <2>2. /\ child'[r].said = child[r].said \union {e} /\ child'[r].inbox = child[r].inbox
        /\ child'[r].agent = IF e = "settled" THEN e ELSE child[r].agent
        /\ child'[r].life = child[r].life
    BY <1>0, <2>1 DEF Child
  <2>3. e = "settled" => Prompted(r)
    BY <2>1 DEF Prompted
  <2>4. Prompted(r)' <=> Prompted(r)
    BY <2>2, <2>3 DEF Prompted
  <2>5. \A q \in Runner : q # r => child'[q] = child[q]
    BY <1>0, <2>1
  <2>. QED
    BY <1>2, <2>2, <2>3, <2>4, <2>5 DEF Prompted, HasPrompt, Running
<1>10. ASSUME Exits(r) PROVE Turns
  <2>1. child' = [child EXCEPT ![r].life = "dead"]
    BY <1>10 DEF Exits
  <2>2. /\ child'[r].agent = child[r].agent /\ child'[r].inbox = child[r].inbox
        /\ child'[r].said = child[r].said /\ child'[r].life = "dead"
    BY <1>0, <2>1 DEF Child
  <2>3. \A q \in Runner : q # r => child'[q] = child[q]
    BY <1>0, <2>1
  <2>. QED
    BY <1>2, <2>2, <2>3 DEF Prompted, HasPrompt, Running
<1>11. ASSUME ~UNCHANGED child PROVE Turns
  <2>1. Spawns(r) \/ AwaitsDispatch(r) \/ TakesPrompt(r) \/ Says(r) \/ Exits(r)
    BY <1>11
    DEF PiRunner, Dies, Works,
        TakesOwnership, RecordsItself, RecordsChild, Handshakes, ReleasesLease, Expires, Accepts,
        Hears, Settles, Stalls, Interrupts, Stops, StopFails, Fails, Reports, Confirms
  <2>. QED
    BY <1>6, <1>7, <1>8, <1>9, <1>10, <1>11, <2>1
<1>. QED
  BY <1>3, <1>4, <1>5, <1>11 DEF HasPrompt

\* A step of the Controller: it kills a child, or it hands over what a child left behind.
LEMMA ControllerTurns ==
    ASSUME PortTypeOK, PiTypeOK, PhaseInv, PiInv, adapter = "pi-rpc", PiController
    PROVE  /\ UNCHANGED <<adapter, result>> /\ phase # "closed"
           /\ \/ UNCHANGED child
              \/ UNCHANGED <<phase, taken>> /\ child' = [child EXCEPT ![spool.owner].life = "dead"]
           /\ \/ taken' \in {taken, 0}
              \/ taken' = result /\ spool.terminal = "ok" /\ UNCHANGED <<phase, child>>
<1>1. op \in BelowPane
  BY DEF PiController, StartAgent, TypesRunner, Dispatches, WaitsForTerminal, Terminates, Polls, LooksAtRunner,
         AsksToTerminate, Identifies, Kills, RefusesToKill, ChecksExit, Observes, PiInv,
         OperationInv, BelowPane, Receipts
<1>2. phase # "closed"
  BY <1>1 DEF PhaseInv, BelowPane
<1>3. CASE Kills
  BY <1>2, <1>3 DEF Kills, portVars
<1>4. CASE ~Kills
  <2>1. ByController
    BY <1>4
    DEF PiController, StartAgent, TypesRunner, Dispatches, WaitsForTerminal, Terminates, Polls, LooksAtRunner,
        AsksToTerminate, Identifies, RefusesToKill, ChecksExit, Observes
  <2>2. ASSUME NEW c, CleansUp(c) PROVE taken' \in {taken, 0}
    BY <2>2 DEF CleansUp, Gives, Failed, Succeeded
  <2>3. Stays => taken' = taken
    BY DEF Stays
  <2>4. Failed => taken' = 0
    BY DEF Failed
  <2>5. op # "wait" /\ Succeeded => taken' = taken
    BY DEF Succeeded
  <2>6. CASE Observes
    <3>1. op = "wait"
      BY <2>6 DEF Observes, PiInv, OperationInv
    <3>2. Failed \/ (Succeeded /\ spool.terminal = "ok")
      BY <2>6 DEF Observes, Gives, GivesUp
    <3>3. Succeeded => taken' = result /\ phase' = phase
      BY <3>1 DEF Succeeded
    <3>. QED
      BY <2>4, <3>2, <3>3, <1>2, <2>1 DEF ByController
  <2>7. CASE Polls
    <3>1. ctl.at \in {"ready", "accepted"} => op # "wait"
      BY DEF PiInv, OperationInv
    <3>2. Stays \/ CleansUp(spool.terminated = "ok") \/ (ctl.at \in {"ready", "accepted"} /\ Gives(Succeeded))
      BY <2>7 DEF Polls, Receipts
    <3>. QED
      BY <2>1, <2>2, <2>3, <2>5, <3>1, <3>2, <1>2 DEF ByController, Gives
  <2>8. CASE StartAgent \/ TypesRunner
    <3>1. op = "start" /\ (Stays \/ Failed \/ Succeeded \/ UNCHANGED <<phase, op, taken>>)
      BY <2>8 DEF StartAgent, TypesRunner, Gives, GivesUp
    <3>. QED
      BY <2>1, <2>3, <2>4, <2>5, <3>1, <1>2 DEF ByController
  <2>9. CASE Dispatches \/ WaitsForTerminal \/ Terminates \/ LooksAtRunner
    <3>1. Stays \/ Failed
      BY <2>9 DEF Dispatches, WaitsForTerminal, Terminates, LooksAtRunner, Gives
    <3>. QED
      BY <2>1, <2>3, <2>4, <3>1, <1>2 DEF ByController
  <2>10. CASE AsksToTerminate \/ Identifies \/ RefusesToKill \/ ChecksExit
    <3>1. Stays \/ \E c \in {FALSE, spool.terminated = "ok", ExitConfirmed(spool.owner),
                             spool.owner = Nobody \/ spool.progress # "absent" \/ spool.ready} : CleansUp(c)
      BY <2>10 DEF AsksToTerminate, Identifies, RefusesToKill, ChecksExit
    <3>. QED
      BY <2>1, <2>2, <2>3, <3>1, <1>2 DEF ByController
  <2>. QED
    BY <1>4, <2>6, <2>7, <2>8, <2>9, <2>10 DEF PiController
<1>. QED
  BY <1>3, <1>4

\* Only the owner's agent is ever prompted.
LEMMA OwnerHasPrompt ==
    ASSUME PiInv
    PROVE  \A q \in Runner : Prompted(q) => q = spool.owner
BY EmptyRecords DEF PiInv, OwnerInv, Prompted

\* The turn of the contract, under the Pi RPC adapter.
LEMMA PiTurnIs ==
    ASSUME adapter = "pi-rpc"
    PROVE  /\ agentTurn \in {"ahead", "working", "over"}
           /\ agentTurn = "working" <=> \E r \in Runner : HasPrompt(r)
           /\ agentTurn = "ahead" <=> phase # "closed" /\ \A r \in Runner : ~Prompted(r)
BY DEF agentTurn, AgentWorks, AgentAsks, AwaitsPrompt, HasPrompt

LEMMA NextPiTurnIs ==
    ASSUME adapter' = "pi-rpc"
    PROVE  /\ agentTurn' \in {"ahead", "working", "over"}
           /\ agentTurn' = "working" <=> \E r \in Runner : HasPrompt(r)'
           /\ agentTurn' = "ahead" <=> phase' # "closed" /\ \A r \in Runner : ~Prompted(r)'
BY DEF agentTurn, AgentWorks, AgentAsks, AwaitsPrompt, HasPrompt

\* Under Herdr: the prompt is about to be sent.
AtPrompt == op = "prompt" /\ ending.at = "none"

LEMMA HerdrTurnIs ==
    ASSUME adapter = "herdr-pi-cli"
    PROVE  /\ agentTurn \in {"ahead", "working", "asking", "over"}
           /\ agentTurn = "working" <=> agent = "working"
           /\ agentTurn = "asking" <=> agent = "blocked"
           /\ agentTurn = "ahead" <=> agent \notin {"working", "blocked"} /\ AwaitsPrompt
           /\ AwaitsPrompt <=> phase \in {"prepared", "pane_ready", "agent_ready"} \/ AtPrompt
<1>1. AwaitsPrompt <=> phase \in {"prepared", "pane_ready", "agent_ready"} \/ AtPrompt
  BY DEF AwaitsPrompt, AtPrompt
<1>2. (AgentWorks <=> agent = "working") /\ (AgentAsks <=> agent = "blocked")
  BY DEF AgentWorks, AgentAsks
<1>. QED
  BY <1>1, <1>2 DEF agentTurn

LEMMA NextHerdrTurnIs ==
    ASSUME adapter' = "herdr-pi-cli"
    PROVE  /\ agentTurn' \in {"ahead", "working", "asking", "over"}
           /\ agentTurn' = "working" <=> agent' = "working"
           /\ agentTurn' = "asking" <=> agent' = "blocked"
           /\ agentTurn' = "ahead" <=> agent' \notin {"working", "blocked"} /\ AwaitsPrompt'
           /\ AwaitsPrompt' <=> phase' \in {"prepared", "pane_ready", "agent_ready"} \/ AtPrompt'
<1>1. AwaitsPrompt' <=> phase' \in {"prepared", "pane_ready", "agent_ready"} \/ AtPrompt'
  BY DEF AwaitsPrompt, AtPrompt
<1>2. (AgentWorks' <=> agent' = "working") /\ (AgentAsks' <=> agent' = "blocked")
  BY DEF AgentWorks, AgentAsks
<1>. QED
  BY <1>1, <1>2 DEF agentTurn

\* The state the contract sees, and its steps.
turnState == <<agentTurn, answered, (phase = "closed"), result, taken>>

Undisturbed == UNCHANGED <<answered, result>> /\ taken' \in {taken, 0}

TurnMoves ==
    \/ UNCHANGED agentTurn /\ Undisturbed
    \/ agentTurn = "ahead" /\ agentTurn' \in {"working", "over"} /\ Undisturbed
    \/ agentTurn \in {"working", "asking"} /\ agentTurn' = "over" /\ Undisturbed
    \/ agentTurn = "working" /\ result' = result + 1 /\ UNCHANGED <<agentTurn, answered, taken>>
    \/ agentTurn = "working" /\ agentTurn' = "asking" /\ UNCHANGED <<answered, result, taken>>
    \/ agentTurn = "asking" /\ agentTurn' = "working" /\ answered' = TRUE /\ UNCHANGED <<result, taken>>
    \/ /\ agentTurn \in {"asking", "over"} /\ phase # "closed" /\ taken' = result
       /\ UNCHANGED <<agentTurn, answered, result>>

LEMMA TurnSteps == TurnMoves /\ ((phase' = "closed") <=> (phase = "closed")) => [Turn!Next]_turnState
<1>. SUFFICES ASSUME TurnMoves, (phase' = "closed") <=> (phase = "closed") PROVE [Turn!Next]_turnState
  OBVIOUS
<1>1. UNCHANGED (phase = "closed")
  OBVIOUS
<1>2. CASE UNCHANGED agentTurn /\ Undisturbed
  BY <1>1, <1>2 DEF turnState, Undisturbed, Turn!Next, Turn!Loses
<1>3. CASE agentTurn = "ahead" /\ agentTurn' \in {"working", "over"} /\ Undisturbed
  BY <1>1, <1>3 DEF Undisturbed, Turn!Next, Turn!Prompts, Turn!Forgets
<1>4. CASE agentTurn \in {"working", "asking"} /\ agentTurn' = "over" /\ Undisturbed
  BY <1>1, <1>4 DEF Undisturbed, Turn!Next, Turn!EndsTurn, Turn!Forgets
<1>5. CASE agentTurn = "working" /\ result' = result + 1 /\ UNCHANGED <<agentTurn, answered, taken>>
  BY <1>1, <1>5 DEF Turn!Next, Turn!Writes
<1>6. CASE agentTurn = "working" /\ agentTurn' = "asking" /\ UNCHANGED <<answered, result, taken>>
  BY <1>1, <1>6 DEF Turn!Next, Turn!Asks
<1>7. CASE agentTurn = "asking" /\ agentTurn' = "working" /\ answered' = TRUE /\ UNCHANGED <<result, taken>>
  BY <1>1, <1>7 DEF Turn!Next, Turn!IsAnswered
<1>8. CASE /\ agentTurn \in {"asking", "over"} /\ phase # "closed" /\ taken' = result
           /\ UNCHANGED <<agentTurn, answered, result>>
  <2>1. CASE result = 0
    BY <1>1, <1>8, <2>1 DEF Turn!Next, Turn!Loses
  <2>2. CASE result # 0
    BY <1>1, <1>8, <2>2 DEF Turn!Next, Turn!HandsOver
  <2>. QED
    BY <2>1, <2>2
<1>. QED
  BY <1>2, <1>3, <1>4, <1>5, <1>6, <1>7, <1>8 DEF TurnMoves

\* The Attempt is closed.
LEMMA ClosingTurns ==
    ASSUME agentTurn \in {"ahead", "over"}, agentTurn' = "over", phase # "closed", phase' = "closed",
           taken' \in {taken, 0}, UNCHANGED <<answered, result>>
    PROVE  Turn!Next
<1>1. ~(phase = "closed") /\ (phase = "closed")' = TRUE
  OBVIOUS
<1>. QED
  BY <1>1 DEF Turn!Next, Turn!Closes, Turn!Forgets

\* The runner and its child keep the contract.
LEMMA ProcessesKeepTurn ==
    ASSUME RInv, TurnInv, adapter = "pi-rpc", PiProcesses, UNCHANGED herdrVars
    PROVE  TurnInv' /\ [Turn!Next]_turnState
<1>. USE DEF RInv, TypeOK, RuntimeInv
<1>0. answered' = answered
  BY DEF herdrVars
<1>1. /\ Turns /\ UNCHANGED <<adapter, phase, op, taken>>
      /\ \/ result' = result
         \/ /\ result' = result + 1 /\ UNCHANGED child
            /\ \E r \in Runner : HasPrompt(r)
  BY ProcessesTurn
<1>2. TurnInv'
  <2>1. \A q \in Runner : "settled" \in child'[q].said => Prompted(q)'
    BY <1>1 DEF TurnInv, Turns
  <2>2. AgentWorks' \/ AgentAsks' => ~AwaitsPrompt'
    BY <1>1 DEF AgentWorks, AgentAsks, AwaitsPrompt
  <2>. QED
    BY <2>1, <2>2 DEF TurnInv
<1>3. CASE result' = result + 1 /\ UNCHANGED child /\ \E r \in Runner : HasPrompt(r)
  <2>1. agentTurn = "working" /\ agentTurn' = "working"
    BY <1>1, <1>3, PiTurnIs, NextPiTurnIs DEF HasPrompt, Prompted
  <2>. QED
    BY <1>0, <1>1, <1>2, <1>3, <2>1, TurnSteps DEF TurnMoves, Undisturbed
<1>4. CASE result' = result
  <2>1. agentTurn' = "ahead" => agentTurn = "ahead"
    BY <1>1, PiTurnIs, NextPiTurnIs DEF Turns
  <2>2. ASSUME agentTurn = "over" PROVE agentTurn' # "working"
    <3>1. SUFFICES ASSUME NEW q \in Runner, HasPrompt(q)' PROVE FALSE
      BY <1>1, NextPiTurnIs
    <3>2. ~HasPrompt(q)
      BY <2>2, PiTurnIs
    <3>3. ~Prompted(q) /\ Prompted(q)'
      BY <1>1, <3>1, <3>2 DEF Turns, HasPrompt
    <3>4. Running(q)
      BY <1>1, <3>3 DEF Turns
    <3>5. q = spool.owner /\ phase # "closed"
      BY <3>4 DEF PiInv, OwnerInv
    <3>6. \E p \in Runner : Prompted(p)
      BY <2>2, <3>5, PiTurnIs
    <3>. QED
      BY <3>3, <3>5, <3>6, OwnerHasPrompt
  <2>3. agentTurn \in {"ahead", "working", "over"} /\ agentTurn' \in {"ahead", "working", "over"}
    BY <1>1, PiTurnIs, NextPiTurnIs
  <2>4. TurnMoves
    BY <1>0, <1>1, <1>4, <2>1, <2>2, <2>3 DEF TurnMoves, Undisturbed
  <2>. QED
    BY <1>1, <1>2, <2>4, TurnSteps
<1>. QED
  BY <1>1, <1>2, <1>3, <1>4

\* The Controller of the Pi RPC adapter keeps the contract.
LEMMA PiControllerKeepsTurn ==
    ASSUME RInv, RInv', TurnInv, adapter = "pi-rpc", PiController, UNCHANGED herdrVars
    PROVE  TurnInv' /\ [Turn!Next]_turnState
<1>. USE DEF RInv, TypeOK, RuntimeInv
<1>0. answered' = answered
  BY DEF herdrVars
<1>1. /\ UNCHANGED <<adapter, result>> /\ phase # "closed"
      /\ \/ UNCHANGED child
         \/ UNCHANGED <<phase, taken>> /\ child' = [child EXCEPT ![spool.owner].life = "dead"]
      /\ \/ taken' \in {taken, 0}
         \/ taken' = result /\ spool.terminal = "ok" /\ UNCHANGED <<phase, child>>
  BY ControllerTurns
<1>2. \A q \in Runner : /\ child'[q].agent = child[q].agent /\ child'[q].inbox = child[q].inbox
                        /\ child'[q].said = child[q].said /\ child'[q].life \in {child[q].life, "dead"}
  BY <1>1 DEF PiTypeOK, Child
<1>3. \A q \in Runner : (Prompted(q)' <=> Prompted(q)) /\ (HasPrompt(q)' => HasPrompt(q))
  BY <1>2 DEF Prompted, HasPrompt
<1>4. TurnInv'
  <2>1. \A q \in Runner : "settled" \in child'[q].said => Prompted(q)'
    BY <1>2 DEF TurnInv, Prompted
  <2>2. AgentWorks' \/ AgentAsks' => ~AwaitsPrompt'
    BY <1>1 DEF AgentWorks, AgentAsks, AwaitsPrompt
  <2>. QED
    BY <2>1, <2>2 DEF TurnInv
<1>5. agentTurn \in {"ahead", "working", "over"} /\ agentTurn' \in {"ahead", "working", "over"}
  BY <1>1, PiTurnIs, NextPiTurnIs
<1>6. CASE phase' = "closed"
  <2>1. UNCHANGED child /\ taken' \in {taken, 0}
    BY <1>1, <1>6
  <2>2. \A q \in Runner : ~HasPrompt(q)' /\ ~HasPrompt(q)
    BY <1>1, <1>6, <2>1 DEF PiInv, HasPrompt, Prompted
  <2>3. agentTurn # "working" /\ agentTurn' = "over"
    BY <1>1, <1>5, <1>6, <2>2, PiTurnIs, NextPiTurnIs
  <2>. QED
    BY <1>0, <1>1, <1>4, <1>5, <1>6, <2>1, <2>3, ClosingTurns
<1>7. CASE phase' # "closed"
  <2>1. agentTurn = "ahead" <=> agentTurn' = "ahead"
    BY <1>1, <1>3, <1>7, PiTurnIs, NextPiTurnIs
  <2>2. agentTurn' = "working" => agentTurn = "working"
    BY <1>1, <1>3, PiTurnIs, NextPiTurnIs
  <2>3. CASE taken' \in {taken, 0}
    BY <1>0, <1>1, <1>4, <1>5, <1>7, <2>1, <2>2, <2>3, TurnSteps DEF TurnMoves, Undisturbed
  <2>4. CASE taken' = result /\ spool.terminal = "ok" /\ UNCHANGED <<phase, child>>
    <3>1. spool.owner \in Runner /\ child[spool.owner].life = "dead" /\ "settled" \in child[spool.owner].said
      BY <2>4 DEF PiInv, TerminalInv, PiTypeOK, Receipt
    <3>2. Prompted(spool.owner) /\ \A q \in Runner : ~HasPrompt(q)
      BY <3>1, OwnerHasPrompt DEF TurnInv, HasPrompt
    <3>3. agentTurn = "over" /\ agentTurn' = "over"
      BY <1>1, <1>5, <2>1, <2>2, <3>1, <3>2, PiTurnIs
    <3>. QED
      BY <1>0, <1>1, <1>4, <1>7, <2>4, <3>3, TurnSteps DEF TurnMoves, Undisturbed
  <2>. QED
    BY <1>1, <2>3, <2>4
<1>. QED
  BY <1>6, <1>7

\* The agent under the Herdr server keeps the contract.
LEMMA HerdrAgentKeepsTurn ==
    ASSUME RInv, TurnInv, adapter = "herdr-pi-cli", HerdrAgent, UNCHANGED piVars
    PROVE  TurnInv' /\ [Turn!Next]_turnState
<1>1. /\ UNCHANGED <<adapter, phase, op, taken, ending>>
      /\ \/ agent = "working" /\ agent' = agent /\ result' = result + 1 /\ answered' = answered
         \/ agent = "blocked" /\ agent' = "working" /\ result' = result /\ answered' = TRUE
         \/ /\ agent' # "working" /\ (agent' = "blocked" => agent = "working")
            /\ result' = result /\ answered' = answered
  BY DEF HerdrAgent, AgentSettles, AgentIsAnswered, AgentWrites, AgentExits, ByAgent, WritesResult
<1>2. AwaitsPrompt' <=> AwaitsPrompt
  BY <1>1, HerdrTurnIs, NextHerdrTurnIs DEF AtPrompt
<1>3. agent \in {"working", "blocked"} => ~AwaitsPrompt
  BY DEF TurnInv, AgentWorks, AgentAsks
<1>4. TurnInv'
  BY <1>1, <1>2, <1>3 DEF TurnInv, AgentWorks, AgentAsks, piVars, Prompted
<1>5. TurnMoves
  BY <1>1, <1>2, <1>3, HerdrTurnIs, NextHerdrTurnIs DEF TurnMoves, Undisturbed
<1>. QED
  BY <1>1, <1>4, <1>5, TurnSteps

\* The Controller of the Herdr adapter keeps the contract.
LEMMA HerdrControllerKeepsTurn ==
    ASSUME RInv, RInv', TurnInv, adapter = "herdr-pi-cli", HerdrController, UNCHANGED piVars
    PROVE  TurnInv' /\ [Turn!Next]_turnState
<1>. USE DEF RInv, TypeOK, RuntimeInv
<1>1. op \in BelowPane /\ UNCHANGED <<adapter, result, answered>>
  BY DEF HerdrController, HerdrStartsAgent, HerdrPrompts, HerdrTooLate, HerdrStalls, HerdrObserves,
         HerdrEnds, RecordsIntent, ClosesAgentPane, ConfirmsAgentGone, Calls, ByHerdr, HerdrInv, BelowPane
<1>2. \/ Failed
      \/ Succeeded /\ (op = "wait" => agent # "working" /\ agent' = agent)
      \/ UNCHANGED <<phase, op, taken>> /\ ending'.at # "none"
  <2>1. \A reason \in Reasons : EndsFor(reason) => UNCHANGED <<phase, op, taken>> /\ ending'.at = "intent"
    BY DEF EndsFor
  <2>2. ASSUME NEW where \in {"close", "exit"}, ending' = [ending EXCEPT !.at = where]
        PROVE  ending'.at # "none"
    BY <2>2 DEF HerdrTypeOK
  <2>3. CASE HerdrStartsAgent \/ HerdrObserves
    BY <2>3 DEF HerdrStartsAgent, HerdrObserves, Calls, Ends
  <2>4. CASE HerdrPrompts \/ HerdrTooLate \/ HerdrStalls \/ HerdrEnds
    BY <2>1, <2>4 DEF HerdrPrompts, HerdrTooLate, HerdrStalls, HerdrEnds, Calls, Ends, Reasons
  <2>5. CASE RecordsIntent \/ ClosesAgentPane \/ ConfirmsAgentGone
    BY <2>2, <2>5 DEF RecordsIntent, ClosesAgentPane, ConfirmsAgentGone, Ends, EndConfirmed
  <2>. QED
    BY <2>3, <2>4, <2>5 DEF HerdrController
<1>0. agent' = "blocked" <=> agent = "blocked"
  BY DEF HerdrController, HerdrStartsAgent, HerdrPrompts, HerdrTooLate, HerdrStalls, HerdrObserves,
         HerdrEnds, RecordsIntent, ClosesAgentPane, ConfirmsAgentGone
<1>3. \/ agent' = "working" <=> agent = "working"
      \/ agent' = "working" /\ AtPrompt /\ UNCHANGED <<phase, taken>> /\ (op' = "none" \/ ending'.at # "none")
  <2>1. CASE HerdrPrompts
    BY <1>2, <2>1 DEF HerdrPrompts, Calls, Ends, EndsFor, Succeeded, AtPrompt
  <2>2. CASE ~HerdrPrompts
    BY <2>2 DEF HerdrController, HerdrStartsAgent, HerdrTooLate, HerdrStalls, HerdrObserves,
                HerdrEnds, RecordsIntent, ClosesAgentPane, ConfirmsAgentGone
  <2>. QED
    BY <2>1, <2>2
<1>4. /\ phase # "prepared" /\ phase # "closed" /\ (op = "start" => phase = "pane_ready")
      /\ op \in {"prompt", "wait"} => phase = "running"
      /\ op = "end" => phase \in {"running", "blocked"}
  BY <1>1 DEF PhaseInv, BelowPane
<1>5. AwaitsPrompt' => AwaitsPrompt
  BY <1>1, <1>2, <1>4, HerdrTurnIs, NextHerdrTurnIs DEF AtPrompt, Failed, Succeeded
<1>6. TurnInv'
  <2>1. agent' \in {"working", "blocked"} => ~AwaitsPrompt'
    BY <1>0, <1>1, <1>3, <1>4, <1>5, NextHerdrTurnIs DEF TurnInv, AgentWorks, AgentAsks, AtPrompt
  <2>. QED
    BY <1>1, <2>1 DEF TurnInv, AgentWorks, AgentAsks, piVars, Prompted
<1>7. CASE phase' = "closed"
  <2>1. op = "end" /\ op' = "none" /\ taken' = taken
    BY <1>2, <1>4, <1>7 DEF Failed, Succeeded
  <2>2. agent' \notin {"working", "blocked"} /\ agent \notin {"working", "blocked"}
    BY <1>0, <1>1, <1>3, <1>7, <2>1 DEF HerdrInv, AtPrompt
  <2>3. agentTurn \in {"ahead", "over"} /\ agentTurn' = "over"
    BY <1>1, <1>7, <2>1, <2>2, HerdrTurnIs, NextHerdrTurnIs DEF AtPrompt
  <2>. QED
    BY <1>1, <1>4, <1>6, <1>7, <2>1, <2>3, ClosingTurns
<1>8. CASE phase' # "closed"
  <2>1. CASE op = "wait" /\ Succeeded
    <3>1. ~AwaitsPrompt /\ ~AwaitsPrompt'
      BY <1>1, <1>4, <1>5, <2>1, HerdrTurnIs DEF AtPrompt
    <3>2. agent # "working" /\ agent' # "working" /\ taken' = result
      BY <1>2, <1>3, <1>4, <2>1 DEF Failed, Succeeded, AtPrompt
    <3>3. agentTurn \in {"asking", "over"} /\ agentTurn' = agentTurn
      BY <1>0, <1>1, <3>1, <3>2, HerdrTurnIs, NextHerdrTurnIs
    <3>. QED
      BY <1>1, <1>4, <1>6, <1>8, <3>2, <3>3, TurnSteps DEF TurnMoves
  <2>2. CASE ~(op = "wait" /\ Succeeded)
    <3>1. taken' \in {taken, 0}
      BY <1>2, <2>2 DEF Failed, Succeeded
    <3>2. agent' = "working" <=> agent = "working" \/ (agent' = "working" /\ AwaitsPrompt)
      BY <1>3, HerdrTurnIs
    <3>3. TurnMoves
      BY <1>0, <1>1, <1>5, <3>1, <3>2, HerdrTurnIs, NextHerdrTurnIs DEF TurnMoves, Undisturbed
    <3>. QED
      BY <1>4, <1>6, <1>8, <3>3, TurnSteps
  <2>. QED
    BY <2>1, <2>2
<1>. QED
  BY <1>7, <1>8

\* What the driver does between the operations keeps the contract.
LEMMA PortKeepsTurn ==
    ASSUME RInv, TurnInv, PortNext
    PROVE  TurnInv' /\ [Turn!Next]_turnState
<1>. USE DEF RInv, TypeOK, RuntimeInv
<1>1. UNCHANGED <<piVars, herdrVars, adapter, result, taken, answered>>
  BY DEF PortNext, Begin, PaneTooLate, FindPane, CreatePane, Retire, Deadline, herdrVars
<1>2. /\ phase' = "closed" => (phase \in {"prepared", "closed"} /\ op' = "none") \/ UNCHANGED <<phase, op>>
      /\ phase = "closed" => phase' = "closed" /\ op' = op
  BY DEF PortNext, Begin, PaneTooLate, FindPane, CreatePane, Retire, Deadline, PhaseInv
<1>3. CASE adapter = "pi-rpc"
  <2>1. \A q \in Runner : (Prompted(q)' <=> Prompted(q)) /\ (HasPrompt(q)' <=> HasPrompt(q))
    BY <1>1 DEF piVars, Prompted, HasPrompt
  <2>2. TurnInv'
    BY <1>1, <1>3 DEF TurnInv, AgentWorks, AgentAsks, AwaitsPrompt, piVars, Prompted
  <2>3. CASE phase = "closed" \/ phase' # "closed"
    <3>1. agentTurn' = agentTurn
      BY <1>1, <1>2, <1>3, <2>1, <2>3, PiTurnIs, NextPiTurnIs
    <3>. QED
      BY <1>1, <1>2, <2>2, <2>3, <3>1, TurnSteps DEF TurnMoves, Undisturbed
  <2>4. CASE phase # "closed" /\ phase' = "closed"
    <3>1. \A q \in Runner : ~HasPrompt(q)
      <4>1. spool.owner = Nobody
        BY <1>2, <2>4 DEF PiInv
      <4>2. \A q \in Runner : q # spool.owner => child[q] = NoChild
        BY OwnerIsSound
      <4>. QED
        BY <4>1, <4>2, EmptyRecords DEF HasPrompt
    <3>2. agentTurn \in {"ahead", "over"} /\ agentTurn' = "over"
      BY <1>1, <1>3, <2>1, <2>4, <3>1, PiTurnIs, NextPiTurnIs
    <3>. QED
      BY <1>1, <2>2, <2>4, <3>2, ClosingTurns
  <2>. QED
    BY <2>3, <2>4
<1>4. CASE adapter = "herdr-pi-cli"
  <2>1. op = "none" => ending.at = "none"
    BY DEF HerdrInv
  <2>2. AwaitsPrompt' => AwaitsPrompt
    BY <1>1, <1>4, HerdrTurnIs, NextHerdrTurnIs
    DEF PortNext, Begin, PaneTooLate, FindPane, CreatePane, Retire, Deadline, AtPrompt, PhaseInv, herdrVars
  <2>3. TurnInv'
    BY <1>1, <1>4, <2>2 DEF TurnInv, AgentWorks, AgentAsks, piVars, herdrVars, Prompted
  <2>4. CASE phase = "closed" \/ phase' # "closed"
    <3>1. TurnMoves
      BY <1>1, <1>4, <2>2, HerdrTurnIs, NextHerdrTurnIs DEF TurnMoves, Undisturbed, herdrVars
    <3>. QED
      BY <1>2, <2>3, <2>4, <3>1, TurnSteps
  <2>5. CASE phase # "closed" /\ phase' = "closed"
    <3>1. agent \notin {"working", "blocked"} /\ agent' = agent /\ op' = "none"
      BY <1>1, <1>2, <2>5 DEF HerdrInv, herdrVars
    <3>2. agentTurn \in {"ahead", "over"} /\ agentTurn' = "over"
      BY <1>1, <1>4, <2>5, <3>1, HerdrTurnIs, NextHerdrTurnIs DEF AtPrompt
    <3>. QED
      BY <1>1, <2>3, <2>5, <3>2, ClosingTurns
  <2>. QED
    BY <2>4, <2>5
<1>. QED
  BY <1>3, <1>4 DEF PortTypeOK

\* A Controller that dies forgets what it was given.
LEMMA CrashesKeepTurn ==
    ASSUME RInv, TurnInv, Crashes
    PROVE  TurnInv' /\ [Turn!Next]_turnState
<1>1. /\ UNCHANGED <<adapter, phase, result, child, agent, answered>> /\ op' = "none" /\ taken' = 0
  BY DEF Crashes, ControllerDies, HerdrControllerDies, piVars, herdrVars
<1>2. CASE adapter = "pi-rpc"
  <2>1. \A q \in Runner : (Prompted(q)' <=> Prompted(q)) /\ (HasPrompt(q)' <=> HasPrompt(q))
    BY <1>1 DEF Prompted, HasPrompt
  <2>2. TurnInv'
    BY <1>1, <1>2 DEF TurnInv, AgentWorks, AgentAsks, AwaitsPrompt, Prompted
  <2>3. agentTurn' = agentTurn
    BY <1>1, <1>2, <2>1, PiTurnIs, NextPiTurnIs
  <2>. QED
    BY <1>1, <2>2, <2>3, TurnSteps DEF TurnMoves, Undisturbed
<1>3. CASE adapter = "herdr-pi-cli"
  <2>1. AwaitsPrompt' => AwaitsPrompt
    BY <1>1, <1>3, HerdrTurnIs, NextHerdrTurnIs DEF AtPrompt
  <2>2. TurnInv'
    BY <1>1, <1>3, <2>1 DEF TurnInv, AgentWorks, AgentAsks, Prompted
  <2>3. TurnMoves
    BY <1>1, <1>3, <2>1, HerdrTurnIs, NextHerdrTurnIs DEF TurnMoves, Undisturbed
  <2>. QED
    BY <1>1, <2>2, <2>3, TurnSteps
<1>. QED
  BY <1>2, <1>3 DEF RInv, TypeOK, PortTypeOK

\* The invariant behind the contract, and the contract step by step.
LEMMA TurnInvariant == Spec => [](RInv /\ TurnInv) /\ [][Turn!Next]_turnState
<1>1. Init => TurnInv
  <2>. SUFFICES ASSUME Init PROVE TurnInv
    OBVIOUS
  <2>1. \A r \in Runner : child[r] = NoChild
    BY DEF Init, PiInit
  <2>2. \A r \in Runner : "settled" \notin child[r].said /\ child[r].life = "none"
    BY <2>1 DEF NoChild
  <2>. QED
    BY <2>2 DEF TurnInv, AgentWorks, AgentAsks, Init, PiInit, HerdrInit
<1>2. RInv /\ RInv' /\ TurnInv /\ [Next]_vars => TurnInv' /\ [Turn!Next]_turnState
  <2>. SUFFICES ASSUME RInv, RInv', TurnInv, [Next]_vars PROVE TurnInv' /\ [Turn!Next]_turnState
    OBVIOUS
  <2>1. CASE UNCHANGED vars
    <3>1. TurnInv'
      BY <2>1 DEF TurnInv, AgentWorks, AgentAsks, AwaitsPrompt, Prompted, vars, portVars, piVars, herdrVars
    <3>2. UNCHANGED <<agentTurn, answered, result, taken, phase>>
      BY <2>1 DEF agentTurn, AgentWorks, AgentAsks, AwaitsPrompt, Prompted, vars, portVars, piVars, herdrVars
    <3>. QED
      BY <3>1, <3>2 DEF turnState
  <2>2. CASE PortNext
    BY <2>2, PortKeepsTurn
  <2>3. CASE Acts \/ Runs
    BY <2>3, PiControllerKeepsTurn, ProcessesKeepTurn, HerdrControllerKeepsTurn, HerdrAgentKeepsTurn DEF Acts, Runs
  <2>4. CASE Crashes
    BY <2>4, CrashesKeepTurn
  <2>. QED
    BY <2>1, <2>2, <2>3, <2>4 DEF Next
<1>. QED
  BY <1>1, <1>2, RuntimeInvariant, PTL DEF Spec

-----------------------------------------------------------------------------
(* What a reader should know.                                               *)

\* Every variable of the Attempt, its spool, its runners and its agent stays within its
\* type, whatever its runtime does.
THEOREM RuntimeIsTyped == Spec => []TypeOK
<1>1. RInv => TypeOK
  BY DEF RInv
<1>. QED
  BY <1>1, RuntimeInvariant, PTL

\* pi-rpc-runner.ts, the exclusive owner.json: however many runners are typed into the
\* pane, and however often the Controller dies, at most one agent is ever prompted.
THEOREM OneAgentIsPrompted == Spec => []PromptedOnce
<1>1. RInv => PromptedOnce
  <2>. SUFFICES ASSUME RInv PROVE PromptedOnce
    OBVIOUS
  <2>. DEFINE prompted == {r \in Runner : Prompted(r)}
  <2>1. \A r \in prompted : r = spool.owner
    BY EmptyRecords DEF RInv, RuntimeInv, PiInv, OwnerInv, Prompted
  <2>2. prompted = {} \/ prompted = {spool.owner}
    BY <2>1
  <2>3. Cardinality(prompted) =< 1
    <3>1. Cardinality({}) = 0 /\ Cardinality({spool.owner}) = 1
      BY FS_EmptySet, FS_Singleton
    <3>. HIDE DEF prompted
    <3>. QED
      BY <2>2, <3>1
  <2>. QED
    BY <2>3 DEF PromptedOnce
<1>. QED
  BY <1>1, RuntimeInvariant, PTL

\* pi-rpc-runtime.ts, wait: a result that was handed to the driver is that of an agent that
\* settled, did nothing its plan forbids, and is gone with its process group.
THEOREM ResultsAreFinal == Spec => []ResultIsFinal
<1>1. RInv => ResultIsFinal
  <2>. SUFFICES ASSUME RInv, adapter = "pi-rpc", taken # 0
                PROVE  /\ taken = result
                       /\ \A r \in Runner : child[r].life # "alive"
                       /\ child[spool.owner].said = {"settled"}
    BY DEF ResultIsFinal
  <2>1. taken = result /\ spool.terminal = "ok" /\ TerminalInv
    BY DEF RInv, RuntimeInv, PiInv
  <2>2. child[spool.owner].life = "dead" /\ child[spool.owner].said = {"settled"}
    BY <2>1 DEF TerminalInv
  <2>3. \A r \in Runner : r # spool.owner => child[r].life # "alive"
    BY OwnerIsSound, EmptyRecords DEF RInv, TypeOK, RuntimeInv
  <2>. QED
    BY <2>1, <2>2, <2>3
<1>. QED
  BY <1>1, RuntimeInvariant, PTL

\* policy.ts: a failure that left nothing behind, its exit confirmed, leaves nothing behind
\* afterwards either, so it may be retried without asking anybody.
THEOREM CleanFailuresStayClean == Spec => []CleanFailureStaysClean
<1>1. RInv => CleanFailureStaysClean
  BY DEF RInv, RuntimeInv, PiInv, TerminalInv, CleanFailureStaysClean
<1>. QED
  BY <1>1, RuntimeInvariant, PTL

\* attempt-driver.ts, recovery-flow.ts: once an Attempt is closed none of its agents works,
\* under either runtime, so its successor is alone in the worktree.
THEOREM ClosedAttemptsAreQuiet == Spec => []ClosedNeverWorks
<1>1. RInv => ClosedNeverWorks
  <2>. SUFFICES ASSUME RInv, phase = "closed"
                PROVE  /\ \A r \in Runner :
                              child[r].life = "alive" => child[r].agent = "fresh" /\ ~child[r].inbox
                       /\ adapter = "herdr-pi-cli" => agent \in {"none", "gone"}
    BY DEF ClosedNeverWorks
  <2>1. CASE adapter = "pi-rpc"
    BY <2>1 DEF RInv, RuntimeInv, PiInv, Prompted
  <2>2. CASE adapter # "pi-rpc"
    <3>1. adapter = "herdr-pi-cli"
      BY <2>2 DEF RInv, TypeOK, PortTypeOK
    <3>2. \A r \in Runner : child[r] = NoChild
      BY <2>2, OwnerIsSound DEF RInv, TypeOK, RuntimeInv, PiInv
    <3>. QED
      BY <2>2, <3>1, <3>2, EmptyRecords DEF RInv, RuntimeInv, HerdrInv
  <2>. QED
    BY <2>1, <2>2
<1>. QED
  BY <1>1, RuntimeInvariant, PTL

\* The two adapters keep one contract: whatever dies, is typed twice, answers late or is
\* not heard of, an Attempt's agent takes one turn, which only a person prolongs, the driver
\* is given what that left behind, and no turn is under way once the Attempt is closed.
THEOREM RuntimesKeepTheTurn == Spec => TurnIsKept
<1>1. Init => Turn!Init
  <2>. SUFFICES ASSUME Init PROVE Turn!Init
    OBVIOUS
  <2>1. /\ phase = "prepared" /\ result = 0 /\ taken = 0 /\ adapter \in {"pi-rpc", "herdr-pi-cli"} /\ agent = "none"
        /\ answered = FALSE
    BY DEF Init, PortInit, HerdrInit
  <2>2. \A r \in Runner : child[r] = NoChild
    BY DEF Init, PiInit
  <2>3. \A r \in Runner : ~HasPrompt(r) /\ ~Prompted(r)
    BY <2>2, EmptyRecords DEF HasPrompt, Prompted
  <2>4. agentTurn = "ahead"
    BY <2>1, <2>3, PiTurnIs, HerdrTurnIs
  <2>. QED
    BY <2>1, <2>4 DEF Turn!Init
<1>. QED
  BY <1>1, TurnInvariant, PTL DEF TurnIsKept, Turn!Spec, Turn!turnVars, turnState, Spec

\* Under either adapter, a result that was given to the driver is the last one its agent
\* writes, unless a person answered that agent in its pane, and a closed Attempt's agent
\* has no turn ahead of it.
THEOREM TurnsAreTakenOnce == Spec => []Turn!TurnIsTakenOnce
<1>1. Turn!Init => Turn!TurnIsTakenOnce
  BY DEF Turn!Init, Turn!TurnIsTakenOnce
<1>2. Turn!TurnIsTakenOnce /\ [Turn!Next]_(Turn!turnVars) => Turn!TurnIsTakenOnce'
  BY DEF Turn!TurnIsTakenOnce, Turn!Next, Turn!Prompts, Turn!Writes, Turn!Asks, Turn!IsAnswered,
         Turn!EndsTurn, Turn!HandsOver, Turn!Loses, Turn!Closes, Turn!Forgets, Turn!turnVars
<1>. QED
  BY <1>1, <1>2, RuntimesKeepTheTurn, PTL DEF TurnIsKept, Turn!Spec

=============================================================================
