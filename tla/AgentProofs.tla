----------------------------- MODULE AgentProofs -----------------------------
(***************************************************************************)
(* What an agent relies on, for any number of processes, Reviewers, turns  *)
(* and spoiled files: the exclusion of credential-startup.ts, the honest   *)
(* verdict of a validation, the earned verdict of a Reviewer and the       *)
(* recorded compaction.  Each of the four has an inductive invariant of    *)
(* its own; AgentServices only lets them run side by side.                 *)
(***************************************************************************)
EXTENDS AgentServices, SequenceTheorems, TLAPS

-----------------------------------------------------------------------------
(* The lease of credential-startup.ts.                                      *)

\* A lease that is being written belongs to the one process that created it.
WriterCreated ==
    /\ \A p \in Process : At(p, "creating") => lease = Torn
    /\ \A p, q \in Process : At(p, "creating") /\ At(q, "creating") => p = q

\* HolderOwnsLease is not inductive: a process that writes the lease it created could
\* take it from a holder, if anything but a torn lease could be there.
LeaseInv == LeaseTypeOK /\ HolderOwnsLease /\ WriterCreated

-----------------------------------------------------------------------------

LEMMA LeaseInitially == LeaseInit => LeaseInv
  BY ProcessAssumption
     DEF LeaseInit, LeaseInv, LeaseTypeOK, HolderOwnsLease, WriterCreated, Absent, Leases,
         Authenticates, At, StartupStage, Reclaim

\* Only a stale lease is replaced, and the owner of a stale lease is dead: nobody holds it.
LEMMA StaleIsUnheld ==
  ASSUME LeaseInv, Stale
  PROVE  /\ lease # Torn /\ lease # Absent
         /\ \A p \in Process : ~Authenticates(p) /\ ~At(p, "creating")
<1>1. lease # Torn /\ lease # Absent BY DEF Stale, Torn, Absent
<1>2. \A p \in Process : ~At(p, "creating") BY <1>1 DEF LeaseInv, WriterCreated
<1>3. ASSUME NEW p \in Process, Authenticates(p) PROVE FALSE
  <2>1. lease.owner = p BY <1>3 DEF LeaseInv, HolderOwnsLease
  <2> QED BY <1>3, <2>1 DEF Stale, Alive, Authenticates, At
<1> QED BY <1>1, <1>2, <1>3

LEMMA StartupKeeps ==
  ASSUME LeaseInv, NEW p \in Process,
         Acquires(p) \/ FindsTornLease(p) \/ TimesOut(p) \/ FindsStaleLease(p) \/ AbandonsReclaim(p) \/ StartupDies(p)
  PROVE  LeaseInv'
<1> USE DEF LeaseInv, LeaseTypeOK
<1>1. lease' = lease
  BY DEF Acquires, FindsTornLease, TimesOut, FindsStaleLease, AbandonsReclaim, StartupDies
<1>2. PICK s \in {"acquiring", "failed", "reclaiming", "dead"} : Goes(p, s)
  BY DEF Acquires, FindsTornLease, TimesOut, FindsStaleLease, AbandonsReclaim, StartupDies
<1>3. startup' = [startup EXCEPT ![p] = s] BY <1>2 DEF Goes
<1>4. reclaims' \subseteq Reclaim
  <2>1. CASE FindsStaleLease(p)
    <3>1. lease.owner \in Process
      <4>1. lease # Absent /\ lease # Torn BY <2>1, StaleIsUnheld DEF FindsStaleLease
      <4> QED BY <4>1 DEF Leases
    <3>2. [by |-> p, from |-> lease.owner, awaited |-> TRUE] \in Reclaim BY <3>1 DEF Reclaim
    <3> QED BY <2>1, <3>2 DEF FindsStaleLease
  <2>2. CASE AbandonsReclaim(p)
    <3>1. \A h \in reclaims : [h EXCEPT !.awaited = @ /\ h.by # p] \in Reclaim BY DEF Reclaim
    <3> QED BY <2>2, <3>1 DEF AbandonsReclaim
  <2> QED BY <2>1, <2>2 DEF Acquires, FindsTornLease, TimesOut, StartupDies
<1>5. LeaseTypeOK' BY <1>1, <1>3, <1>4 DEF StartupStage
<1>6. HolderOwnsLease' BY <1>1, <1>3 DEF HolderOwnsLease, Authenticates, At
<1>7. WriterCreated' BY <1>1, <1>3 DEF WriterCreated, At
<1> QED BY <1>5, <1>6, <1>7

\* Whoever creates, writes, renews or removes the lease leaves nobody else with it.
LEMMA LeaseFileKeeps ==
  ASSUME LeaseInv, NEW p \in Process, CreatesLease(p) \/ WritesLease(p) \/ Heartbeats(p) \/ Releases(p)
  PROVE  LeaseInv'
<1> USE DEF LeaseInv
<1>1. startup \in [Process -> StartupStage]
  BY DEF LeaseTypeOK
<1>2. reclaims' = reclaims BY DEF CreatesLease, WritesLease, Heartbeats, Releases
<1>3. {Absent, Torn, Of(p)} \subseteq Leases BY DEF Leases, Of
<1>4. CASE CreatesLease(p)
  <2>1. lease' = Torn /\ startup' = [startup EXCEPT ![p] = "creating"] BY <1>4 DEF CreatesLease, Goes
  <2>2. \A q \in Process : ~Authenticates(q) /\ ~At(q, "creating")
    BY <1>4, ProcessAssumption DEF CreatesLease, HolderOwnsLease, WriterCreated, Absent, Torn
  <2> QED BY <1>1, <1>2, <1>3, <2>1, <2>2 DEF LeaseTypeOK, HolderOwnsLease, WriterCreated, Authenticates, At, StartupStage
<1>5. CASE WritesLease(p)
  <2>1. PICK s \in {"holding", "failed"} :
          /\ startup' = [startup EXCEPT ![p] = s] /\ lease' \in {Torn, Of(p)}
          /\ s = "holding" => lease' = Of(p)
    BY <1>5 DEF WritesLease, Goes
  <2>2. \A q \in Process : ~Authenticates(q)
    BY <1>5, ProcessAssumption DEF WritesLease, HolderOwnsLease, WriterCreated, Torn
  <2>3. \A q \in Process : At(q, "creating") => q = p BY <1>5 DEF WritesLease, WriterCreated
  <2>4. Of(p).owner = p BY DEF Of
  <2> QED
    BY <1>1, <1>2, <1>3, <2>1, <2>2, <2>3, <2>4
    DEF LeaseTypeOK, HolderOwnsLease, WriterCreated, Authenticates, At, StartupStage
<1>6. CASE Heartbeats(p) \/ Releases(p)
  <2>1. lease.owner = p BY <1>6 DEF Heartbeats, Releases, HolderOwnsLease
  <2>2. \A q \in Process : (Authenticates(q) => q = p) /\ ~At(q, "creating")
    BY <2>1, ProcessAssumption DEF HolderOwnsLease, WriterCreated, Torn
  <2>3. Of(p).owner = p BY DEF Of
  <2>4. CASE lease' = Of(p) /\ UNCHANGED startup
    BY <1>2, <1>3, <2>2, <2>3, <2>4 DEF LeaseTypeOK, HolderOwnsLease, WriterCreated, Authenticates, At
  <2>5. ASSUME NEW s \in {"idle", "faulty", "failed"}, Goes(p, s),
               lease' = lease \/ (lease' = Absent /\ s = "idle")
        PROVE  LeaseInv'
    <3>1. startup' = [startup EXCEPT ![p] = s] BY <2>5 DEF Goes
    <3> QED
      BY <1>1, <1>2, <1>3, <2>1, <2>2, <2>5, <3>1
      DEF LeaseTypeOK, HolderOwnsLease, WriterCreated, Authenticates, At, StartupStage
  <2> QED BY <1>6, <2>4, <2>5 DEF Heartbeats, Releases
<1> QED BY <1>4, <1>5, <1>6

\* A helper may outlive its parent: what it replaces is unheld when it replaces it.
LEMMA ReclaimKeeps ==
  ASSUME LeaseInv, NEW h \in reclaims, Reclaims(h)
  PROVE  LeaseInv'
<1> USE DEF LeaseInv
<1>1. startup \in [Process -> StartupStage]
  BY DEF LeaseTypeOK
<1>2. h.by \in Process BY DEF LeaseTypeOK, Reclaim
<1>3. reclaims' \subseteq Reclaim BY DEF Reclaims, LeaseTypeOK
<1>4. CASE StillStale(h)
  <2>1. lease' = Of(h.by) BY <1>4 DEF Reclaims
  <2>2. startup' = startup \/ startup' = [startup EXCEPT ![h.by] = "holding"] BY <1>4 DEF Reclaims
  <2>3. \A q \in Process : ~Authenticates(q) /\ ~At(q, "creating") BY <1>4, StaleIsUnheld DEF StillStale
  <2>4. lease'.owner = h.by /\ lease' \in Leases BY <1>2, <2>1 DEF Of, Leases
  <2> QED BY <1>1, <1>2, <1>3, <2>2, <2>3, <2>4 DEF LeaseTypeOK, HolderOwnsLease, WriterCreated, Authenticates, At, StartupStage
<1>5. CASE ~StillStale(h)
  <2>1. lease' = lease BY <1>5 DEF Reclaims
  <2>2. startup' = startup \/ startup' = [startup EXCEPT ![h.by] = "acquiring"] BY <1>5 DEF Reclaims
  <2> QED BY <1>1, <1>2, <1>3, <2>1, <2>2 DEF LeaseTypeOK, HolderOwnsLease, WriterCreated, Authenticates, At, StartupStage
<1> QED BY <1>4, <1>5

LEMMA AgeKeeps ==
  ASSUME LeaseInv, LeaseAges
  PROVE  LeaseInv'
<1> USE DEF LeaseInv
<1>1. lease.state = "fresh" /\ lease' = [lease EXCEPT !.state = "old"] BY DEF LeaseAges
<1>2. lease \in [owner : Process, state : {"fresh", "old"}]
  BY <1>1 DEF LeaseTypeOK, Leases, Absent, Torn
<1>3. lease' \in Leases /\ lease'.owner = lease.owner BY <1>1, <1>2 DEF Leases
<1>4. \A p \in Process : ~At(p, "creating") BY <1>1 DEF WriterCreated, Torn
<1>5. startup' = startup /\ reclaims' = reclaims BY DEF LeaseAges
<1> QED BY <1>3, <1>4, <1>5 DEF LeaseTypeOK, HolderOwnsLease, WriterCreated, Authenticates, At, StartupStage

LEMMA LeaseStepKeeps == LeaseInv /\ [LeaseNext]_leaseVars => LeaseInv'
<1> SUFFICES ASSUME LeaseInv, [LeaseNext]_leaseVars PROVE LeaseInv' OBVIOUS
<1>1. CASE UNCHANGED leaseVars
  BY <1>1 DEF leaseVars, LeaseInv, LeaseTypeOK, HolderOwnsLease, WriterCreated, Authenticates, At
<1>2. CASE LeaseNext
  BY <1>2, StartupKeeps, LeaseFileKeeps, ReclaimKeeps, AgeKeeps DEF LeaseNext
<1> QED BY <1>1, <1>2

\* acquireCredentialStartupLease keeps, for any number of processes, every process that
\* authenticates the owner of the lease file, whatever dies, is late or is reclaimed.
THEOREM OneAuthenticates == LeaseSpec => []HolderOwnsLease
<1>1. LeaseInit => LeaseInv BY LeaseInitially
<1>2. LeaseInv /\ [LeaseNext]_leaseVars => LeaseInv' BY LeaseStepKeeps
<1>3. LeaseInv => HolderOwnsLease BY DEF LeaseInv
<1> QED BY <1>1, <1>2, <1>3, PTL DEF LeaseSpec

\* The services of an agent, of which the run checks a small instance, behave towards the
\* lease as the lease alone does: every step of theirs is one of its steps or none.
THEOREM ServicesShareLease == AgentSpec => LeaseSpec
<1>1. AgentInit => LeaseInit BY DEF AgentInit
<1>2. [AgentNext]_agentVars => [LeaseNext]_leaseVars
  BY DEF AgentNext, agentVars, leaseVars, LeaseRuns, ValidationRuns, EvidenceRuns, CompactionRuns
<1> QED BY <1>1, <1>2, PTL DEF AgentSpec, LeaseSpec

\* And so no two processes authenticate at once in what the run checks.
THEOREM AgentsTakeTurns == AgentSpec => []HolderOwnsLease
  BY ServicesShareLease, OneAuthenticates, PTL

-----------------------------------------------------------------------------
(* reviewer-validation-runner.ts.                                           *)

LEMMA ValidationInitially == Validation!ValidationInit => Validation!ValidationInv
  BY DEF Validation!ValidationInit, Validation!ValidationInv, Validation!ValidationTypeOK, Validation!ValidationOrder,
         Validation!ValidationWatched, Validation!ValidationConcluded, Validation!At, Validation!EndedWith,
         Validation!NoTick, Validation!Statuses, Validation!Exit, Validation!Stages, Validation!Deterministic

CommandRecord == [self : Validation!Exit \union {"none", "running", "killed"}, rest : BOOLEAN, told : BOOLEAN,
                  late : BOOLEAN, honest : BOOLEAN, runs : {0, 1}]
TickRecord == [stage : Validation!Stages, exit : Validation!Exit \union {"none", "killed"}, timedOut : BOOLEAN,
               stopped : BOOLEAN, broken : BOOLEAN]

\* What is written of the command, and of the tick, is a record of its kind.
LEMMA CommandRecords ==
  ASSUME NEW x \in CommandRecord
  PROVE  /\ \A b \in BOOLEAN : /\ [x EXCEPT !.rest = b] \in CommandRecord
                              /\ [x EXCEPT !.late = b] \in CommandRecord
         /\ [x EXCEPT !.self = "killed"] \in CommandRecord /\ [x EXCEPT !.told = TRUE] \in CommandRecord
         /\ \A e \in Validation!Exit, b \in BOOLEAN : [x EXCEPT !.self = e, !.honest = b] \in CommandRecord
<1>1. \A b \in BOOLEAN : [x EXCEPT !.rest = b] \in CommandRecord /\ [x EXCEPT !.late = b] \in CommandRecord
  BY DEF CommandRecord
<1>2. [x EXCEPT !.self = "killed"] \in CommandRecord /\ [x EXCEPT !.told = TRUE] \in CommandRecord
  BY DEF CommandRecord
<1>3. ASSUME NEW e \in Validation!Exit, NEW b \in BOOLEAN
      PROVE  [x EXCEPT !.self = e, !.honest = b] \in CommandRecord
  BY DEF CommandRecord
<1> QED BY <1>1, <1>2, <1>3

LEMMA TickRecords ==
  ASSUME NEW x \in TickRecord
  PROVE  /\ [x EXCEPT !.broken = TRUE] \in TickRecord
         /\ [x EXCEPT !.stage = "closed", !.broken = TRUE] \in TickRecord
         /\ [x EXCEPT !.stage = "swept", !.broken = TRUE] \in TickRecord
         /\ \A b, c, d \in BOOLEAN : [x EXCEPT !.timedOut = b, !.stopped = c, !.broken = d] \in TickRecord
         /\ \A e \in Validation!Exit \union {"killed"}, b \in BOOLEAN :
              [x EXCEPT !.stage = "closed", !.exit = e, !.timedOut = b] \in TickRecord
<1>1. [x EXCEPT !.broken = TRUE] \in TickRecord BY DEF TickRecord
<1>2. ASSUME NEW e \in Validation!Exit \union {"killed"}, NEW b \in BOOLEAN
      PROVE  [x EXCEPT !.stage = "closed", !.exit = e, !.timedOut = b] \in TickRecord
  BY DEF TickRecord, Validation!Stages
<1>3. [x EXCEPT !.stage = "closed", !.broken = TRUE] \in TickRecord BY DEF TickRecord, Validation!Stages
<1>4. [x EXCEPT !.stage = "swept", !.broken = TRUE] \in TickRecord BY DEF TickRecord, Validation!Stages
<1>5. \A b, c, d \in BOOLEAN : [x EXCEPT !.timedOut = b, !.stopped = c, !.broken = d] \in TickRecord
  BY DEF TickRecord
<1> QED BY <1>1, <1>2, <1>3, <1>4, <1>5

LEMMA CommandTypes ==
  ASSUME Validation!ValidationTypeOK, Validation!CommandActs
  PROVE  Validation!ValidationTypeOK'
<1>1. command \in CommandRecord BY DEF Validation!ValidationTypeOK, CommandRecord
<1>2. CASE Validation!Forks \/ Validation!RestEnds \/ Validation!IsKilled \/ Validation!DeadlinePasses
  <2>1. \/ \E b \in BOOLEAN : command' = [command EXCEPT !.rest = b] \/ command' = [command EXCEPT !.late = b]
        \/ command' = [command EXCEPT !.self = "killed"]
    BY <1>2 DEF Validation!Forks, Validation!RestEnds, Validation!IsKilled, Validation!DeadlinePasses
  <2>2. command' \in CommandRecord BY <1>1, <2>1, CommandRecords
  <2> QED BY <2>2 DEF Validation!ValidationTypeOK, CommandRecord, Validation!CommandActs
<1>3. CASE Validation!Exits
  <2>1. PICK e \in Validation!Exit : command' = [command EXCEPT !.self = e, !.honest = ~command.told /\ ~command.late]
    BY <1>3 DEF Validation!Exits, Validation!Exit
  <2>2. (~command.told /\ ~command.late) \in BOOLEAN OBVIOUS
  <2>3. command' \in CommandRecord BY <1>1, <2>1, <2>2, CommandRecords
  <2> QED BY <2>3 DEF Validation!ValidationTypeOK, CommandRecord, Validation!CommandActs
<1> QED BY <1>2, <1>3 DEF Validation!CommandActs

LEMMA CommandKeeps ==
  ASSUME Validation!ValidationInv, Validation!HeadDrifts \/ Validation!CommandActs
  PROVE  Validation!ValidationInv'
<1>0. Validation!CommandActs => Validation!ValidationTypeOK' BY CommandTypes DEF Validation!ValidationInv
<1> USE DEF Validation!ValidationInv, Validation!ValidationTypeOK, Validation!ValidationOrder,
         Validation!ValidationWatched, Validation!ValidationConcluded, Validation!At, Validation!EndedWith,
         Validation!Statuses, Validation!Exit, Validation!Stages, Validation!Deterministic, Validation!Alive
<1>1. CASE Validation!HeadDrifts BY <1>1 DEF Validation!HeadDrifts
<1>2. CASE Validation!CommandActs
  <2>1. CASE Validation!Forks 
    <3>1. command'.self = command.self /\ command'.told = command.told /\ command'.late = command.late
            /\ command'.honest = command.honest /\ command'.runs = command.runs /\ command'.rest = TRUE
      BY <1>2, <2>1 DEF Validation!Forks, Validation!CommandActs
    <3>2. Validation!ValidationTypeOK' BY <1>0, <1>2
    <3>3. Validation!ValidationOrder' BY <1>2, <2>1, <3>1 DEF Validation!Forks, Validation!CommandActs
    <3>4. Validation!ValidationWatched' BY <1>2, <2>1, <3>1 DEF Validation!Forks, Validation!CommandActs
    <3>5. Validation!ValidationConcluded' BY <1>2, <2>1, <3>1 DEF Validation!Forks, Validation!CommandActs
    <3> QED BY <3>2, <3>3, <3>4, <3>5
  <2>2. CASE Validation!Exits
    <3>1. command'.rest = command.rest /\ command'.told = command.told /\ command'.late = command.late
            /\ command'.runs = command.runs /\ command'.self \in Validation!Exit /\ command'.honest = (~command.told
            /\ ~command.late)
      BY <1>2, <2>2 DEF Validation!Exits, Validation!CommandActs
    <3>2. Validation!ValidationTypeOK' BY <1>0, <1>2
    <3>3. (Validation!ValidationOrder /\ Validation!ValidationWatched)'
      BY <1>2, <2>2, <3>1 DEF Validation!Exits, Validation!CommandActs
    <3>4. Validation!ValidationConcluded' BY <1>2, <2>2, <3>1 DEF Validation!Exits, Validation!CommandActs
    <3> QED BY <3>2, <3>3, <3>4
  <2>3. CASE Validation!IsKilled BY <1>2, <2>3 DEF Validation!IsKilled, Validation!CommandActs
  <2>4. CASE Validation!RestEnds
    <3>1. command' = [command EXCEPT !.rest = FALSE] BY <2>4 DEF Validation!RestEnds
    <3>2. Validation!ValidationTypeOK' BY <1>0, <1>2
    <3>3. ~command'.rest /\ command'.self = command.self /\ command'.told = command.told
            /\ command'.late = command.late
          /\ command'.honest = command.honest /\ command'.runs = command.runs
      BY <3>1
    <3> QED BY <1>2, <3>2, <3>3 DEF Validation!CommandActs
  <2>5. CASE Validation!DeadlinePasses
    <3>1. command.self = "running" /\ command' = [command EXCEPT !.late = TRUE] BY <2>5 DEF Validation!DeadlinePasses
    <3>2. command'.late /\ command'.self = command.self /\ command'.rest = command.rest
            /\ command'.told = command.told /\ command'.honest = command.honest /\ command'.runs = command.runs
      BY <3>1
    <3>3. Validation!ValidationTypeOK' BY <1>0, <1>2
    <3>4. (Validation!ValidationOrder /\ Validation!ValidationWatched)' BY <1>2, <3>1, <3>2 DEF Validation!CommandActs
    <3>5. Validation!ValidationConcluded' BY <1>2, <3>1, <3>2 DEF Validation!CommandActs
    <3> QED BY <3>3, <3>4, <3>5
  <2> QED BY <1>2, <2>1, <2>2, <2>3, <2>4, <2>5 DEF Validation!CommandActs
<1> QED BY <1>1, <1>2

LEMMA TickKeeps ==
  ASSUME Validation!ValidationInv, Validation!ValidationNext, ~Validation!HeadDrifts, ~Validation!CommandActs
  PROVE  Validation!ValidationInv'
<1> USE DEF Validation!ValidationInv, Validation!ValidationTypeOK, Validation!ValidationOrder,
         Validation!ValidationWatched, Validation!ValidationConcluded, Validation!At, Validation!EndedWith,
         Validation!Statuses, Validation!Exit, Validation!Stages, Validation!Deterministic, Validation!Alive,
         Validation!Goes, Validation!Ends, Validation!BlocksWith, Validation!NoTick, Validation!Begins
<1>1. CASE Validation!FindsDrift BY <1>1 DEF Validation!FindsDrift
<1>2. CASE Validation!ExportsSource BY <1>2 DEF Validation!ExportsSource
<1>3. CASE Validation!PublishesPlan BY <1>3 DEF Validation!PublishesPlan
<1>4. CASE Validation!FindsReceipt BY <1>4 DEF Validation!FindsReceipt, Validation!Concludes
<1>5. CASE Validation!FindsInterruption BY <1>5 DEF Validation!FindsInterruption
<1>6. CASE Validation!CannotStart BY <1>6 DEF Validation!CannotStart
<1>7. CASE Validation!SpawnsCommand
  <2>1. tick'.exit = tick.exit /\ tick'.timedOut = tick.timedOut /\ tick'.stopped = tick.stopped
          /\ tick'.broken = tick.broken /\ tick'.stage = "running" /\ command'.rest = command.rest
          /\ command'.told = command.told /\ command'.late = command.late /\ command'.honest = command.honest
          /\ command'.self = "running" /\ command'.runs = 1
    BY <1>7 DEF Validation!SpawnsCommand
  <2>2. Validation!ValidationTypeOK'
    <3>1. command.runs + 1 = 1 BY <1>7 DEF Validation!SpawnsCommand
    <3>2. command' = [command EXCEPT !.self = "running", !.runs = 1] BY <1>7, <3>1 DEF Validation!SpawnsCommand
    <3>3. command' \in [self : Validation!Exit \union {"none", "running", "killed"}, rest : BOOLEAN, told : BOOLEAN,
                       late : BOOLEAN, honest : BOOLEAN, runs : {0, 1}]
      BY <3>2
    <3> QED BY <1>7, <3>3 DEF Validation!SpawnsCommand
  <2>3. (Validation!ValidationOrder /\ Validation!ValidationWatched)' BY <1>7, <2>1 DEF Validation!SpawnsCommand
  <2>4. Validation!ValidationConcluded' BY <1>7, <2>1 DEF Validation!SpawnsCommand
  <2> QED BY <2>2, <2>3, <2>4
<1>8. CASE Validation!Stops
  <2>1. tick'.stage = tick.stage /\ tick'.exit = tick.exit /\ command'.self = command.self
          /\ command'.rest = command.rest /\ command'.late = command.late /\ command'.honest = command.honest
          /\ command'.runs = command.runs /\ command'.told /\ (tick'.timedOut \/ tick'.stopped)
    BY <1>8 DEF Validation!Stops
  <2>2. Validation!ValidationTypeOK'
    <3>1. command \in CommandRecord /\ tick \in TickRecord BY DEF CommandRecord, TickRecord
    <3>2. PICK b, c, d \in BOOLEAN : tick' = [tick EXCEPT !.timedOut = b, !.stopped = c, !.broken = d]
      BY <1>8, <3>1 DEF Validation!Stops, TickRecord
    <3>3. command' \in CommandRecord BY <1>8, <3>1, CommandRecords DEF Validation!Stops
    <3>4. tick' \in TickRecord BY <3>1, <3>2, TickRecords
    <3> QED BY <1>8, <3>3, <3>4 DEF Validation!Stops, CommandRecord, TickRecord
  <2>3. (Validation!ValidationOrder /\ Validation!ValidationWatched)' BY <1>8, <2>1 DEF Validation!Stops
  <2>4. Validation!ValidationConcluded' BY <1>8, <2>1 DEF Validation!Stops
  <2> QED BY <2>2, <2>3, <2>4
<1>9. CASE Validation!CaptureFails
  <2>1. /\ command' = command \/ (command.self = "running" /\ command' = [command EXCEPT !.self = "killed"])
        /\ tick' = [tick EXCEPT !.broken = TRUE] /\ UNCHANGED <<worktree, plan, receipt, attempt>>
    BY <1>9 DEF Validation!CaptureFails
  <2>2. Validation!ValidationTypeOK'
    <3>1. command \in CommandRecord /\ tick \in TickRecord BY DEF CommandRecord, TickRecord
    <3>2. [command EXCEPT !.self = "killed"] \in CommandRecord BY <3>1, CommandRecords
    <3>3. command' \in CommandRecord BY <2>1, <3>1, <3>2
    <3>4. tick' \in TickRecord BY <2>1, <3>1, TickRecords
    <3> QED BY <2>1, <3>3, <3>4 DEF CommandRecord, TickRecord
  <2>3. tick'.stage = tick.stage /\ tick'.exit = tick.exit /\ tick'.timedOut = tick.timedOut
          /\ tick'.stopped = tick.stopped /\ tick'.broken /\ command'.rest = command.rest
          /\ command'.told = command.told /\ command'.late = command.late /\ command'.honest = command.honest
          /\ command'.runs = command.runs
    BY <2>1
  <2>4. (Validation!ValidationOrder /\ Validation!ValidationWatched)'
    BY <1>9, <2>3 DEF Validation!CaptureFails
  <2>5. Validation!ValidationConcluded' BY <1>9, <2>3 DEF Validation!CaptureFails
  <2> QED BY <2>2, <2>4, <2>5
<1>10. CASE Validation!Closes
  <2>1. tick'.stage = "closed" /\ tick'.exit = command.self /\ tick'.timedOut = (tick.timedOut \/ command.late)
          /\ tick'.stopped = tick.stopped /\ tick'.broken = tick.broken
    BY <1>10 DEF Validation!Closes, Validation!PastDeadline
  <2>2. Validation!ValidationTypeOK'
    <3>1. /\ tick' = [tick EXCEPT !.stage = "closed", !.exit = command.self, !.timedOut = tick.timedOut \/ command.late]
          /\ command.self \in Validation!Exit \union {"killed"} /\ UNCHANGED <<worktree, plan, receipt, attempt, command>>
      BY <1>10 DEF Validation!Closes, Validation!PastDeadline
    <3>2. (tick.timedOut \/ command.late) \in BOOLEAN OBVIOUS
    <3>3. tick \in TickRecord BY DEF TickRecord
    <3>4. tick' \in TickRecord BY <3>1, <3>2, <3>3, TickRecords
    <3> QED BY <3>1, <3>4 DEF TickRecord
  <2>3. (Validation!ValidationOrder /\ Validation!ValidationWatched)'
    BY <1>10, <2>1 DEF Validation!Closes, Validation!PastDeadline
  <2>4. Validation!ValidationConcluded' BY <1>10, <2>1 DEF Validation!Closes, Validation!PastDeadline
  <2> QED BY <2>2, <2>3, <2>4
<1>11. CASE Validation!GivesUpOnExit
  <2>1. tick'.stage = "closed" /\ tick'.broken /\ tick'.exit = tick.exit /\ tick'.timedOut = tick.timedOut
          /\ tick'.stopped = tick.stopped
    BY <1>11 DEF Validation!GivesUpOnExit
  <2>2. Validation!ValidationTypeOK'
    <3>1. tick \in TickRecord BY DEF TickRecord
    <3>2. tick' \in TickRecord BY <1>11, <3>1, TickRecords DEF Validation!GivesUpOnExit
    <3> QED BY <1>11, <3>2 DEF Validation!GivesUpOnExit, TickRecord
  <2>3. (Validation!ValidationOrder /\ Validation!ValidationWatched)' BY <1>11, <2>1 DEF Validation!GivesUpOnExit
  <2>4. Validation!ValidationConcluded' BY <1>11, <2>1 DEF Validation!GivesUpOnExit
  <2> QED BY <2>2, <2>3, <2>4
<1>12. CASE Validation!SweepsGroup
  <2>1. CASE /\ Validation!Goes("swept")
             /\ command' = [command EXCEPT !.rest = FALSE, !.self = IF Validation!Alive THEN "killed" ELSE @]
    <3>1. Validation!ValidationTypeOK' BY <1>12, <2>1 DEF Validation!SweepsGroup
    <3>2. (Validation!ValidationOrder /\ Validation!ValidationWatched)' BY <1>12, <2>1 DEF Validation!SweepsGroup
    <3>3. Validation!ValidationConcluded' BY <1>12, <2>1 DEF Validation!SweepsGroup
    <3> QED BY <3>1, <3>2, <3>3
  <2>2. CASE tick' = [tick EXCEPT !.stage = "swept", !.broken = TRUE] /\ UNCHANGED command
    <3>1. Validation!ValidationTypeOK'
      <4>1. tick \in TickRecord BY DEF TickRecord
      <4>2. tick' \in TickRecord BY <2>2, <4>1, TickRecords
      <4> QED BY <1>12, <2>2, <4>2 DEF Validation!SweepsGroup, TickRecord
    <3>2. (Validation!ValidationOrder /\ Validation!ValidationWatched)' BY <1>12, <2>2 DEF Validation!SweepsGroup
    <3>3. Validation!ValidationConcluded' BY <1>12, <2>2 DEF Validation!SweepsGroup
    <3> QED BY <3>1, <3>2, <3>3
  <2> QED BY <1>12, <2>1, <2>2 DEF Validation!SweepsGroup, Validation!Sweeps
<1>13. CASE Validation!ReceiptsFail
  <2>1. tick'.stage = tick.stage /\ tick'.exit = tick.exit /\ tick'.timedOut = tick.timedOut
          /\ tick'.stopped = tick.stopped /\ tick'.broken
    BY <1>13 DEF Validation!ReceiptsFail
  <2>2. Validation!ValidationTypeOK'
    <3>1. tick \in TickRecord BY DEF TickRecord
    <3>2. tick' \in TickRecord BY <1>13, <3>1, TickRecords DEF Validation!ReceiptsFail
    <3> QED BY <1>13, <3>2 DEF Validation!ReceiptsFail, TickRecord
  <2>3. (Validation!ValidationOrder /\ Validation!ValidationWatched)' BY <1>13, <2>1 DEF Validation!ReceiptsFail
  <2>4. Validation!ValidationConcluded' BY <1>13, <2>1 DEF Validation!ReceiptsFail
  <2> QED BY <2>2, <2>3, <2>4
<1>14. CASE Validation!PublishesReceipt BY <1>14 DEF Validation!PublishesReceipt
<1>15. CASE Validation!Binds BY <1>15 DEF Validation!Binds, Validation!Concludes
<1>16. CASE Validation!PublishFails BY <1>16 DEF Validation!PublishFails
<1>17. CASE Validation!ControllerCrashes BY <1>17 DEF Validation!ControllerCrashes
<1> QED
  BY <1>1, <1>2, <1>3, <1>4, <1>5, <1>6, <1>7, <1>8, <1>9, <1>10, <1>11, <1>12, <1>13, <1>14, <1>15, <1>16, <1>17
     DEF Validation!ValidationNext

LEMMA ValidationStepKeeps == Validation!ValidationInv /\ [Validation!ValidationNext]_validationVars
  => Validation!ValidationInv'
<1> SUFFICES ASSUME Validation!ValidationInv, [Validation!ValidationNext]_validationVars
      PROVE Validation!ValidationInv'
  OBVIOUS
<1>1. CASE UNCHANGED validationVars
  BY <1>1 DEF validationVars, Validation!ValidationInv, Validation!ValidationTypeOK, Validation!ValidationOrder,
     Validation!ValidationWatched, Validation!ValidationConcluded, Validation!At, Validation!EndedWith,
       Validation!Deterministic
<1>2. CASE Validation!ValidationNext BY <1>2, CommandKeeps, TickKeeps
<1> QED BY <1>1, <1>2

LEMMA ValidationInvSuffices == Validation!ValidationInv => Validation!VerdictIsHonest
  BY DEF Validation!ValidationInv, Validation!ValidationOrder, Validation!ValidationConcluded,
     Validation!VerdictIsHonest,
     Validation!EndedWith, Validation!Exit

-----------------------------------------------------------------------------
(* reviewer-tools.js.                                                       *)

LEMMA EvidenceInitially == Evidence!EvidenceInit => Evidence!EvidenceInv
<1> SUFFICES ASSUME Evidence!EvidenceInit PROVE Evidence!EvidenceInv OBVIOUS
<1> USE DEF Evidence!EvidenceInit
<1>1. reviews = <<>> /\ Len(reviews) = 0 /\ reviews \in Seq(Evidence!Review) OBVIOUS
<1>2. MaxReviews \in Nat BY AgentServicesAssumption DEF Evidence!EvidenceBounds
<1>3. files \in Evidence!Checkpoints BY DEF Evidence!Checkpoints
<1>4. actual \in [1..MaxReviews -> [Evidence!Proofs -> Evidence!Verdicts \union {"none"}]] OBVIOUS
<1>5. Evidence!NoReviewer \in Evidence!Memory BY DEF Evidence!NoReviewer, Evidence!Memory
<1>6. Evidence!EvidenceTypeOK BY <1>1, <1>2, <1>3, <1>4, <1>5 DEF Evidence!EvidenceTypeOK
<1>7. Evidence!FilesTrue BY DEF Evidence!FilesTrue, Evidence!Valid, Evidence!Proofs, Evidence!Stages
<1>8. Evidence!ReceiptsTrue /\ Evidence!InputsTrue /\ Evidence!MemoryTrue /\ Evidence!ResultsSettled
        /\ Evidence!VerdictIsEarned
  BY <1>1 DEF Evidence!ResultsSettled, Evidence!ReceiptsTrue, Evidence!InputsTrue, Evidence!MemoryTrue,
     Evidence!VerdictIsEarned, Evidence!Running, Evidence!Phase, Evidence!Last
<1> QED BY <1>1, <1>6, <1>7, <1>8 DEF Evidence!EvidenceInv, Evidence!Last

LEMMA ReviewsAreTyped ==
  ASSUME Evidence!EvidenceTypeOK
  PROVE  /\ Evidence!Last \in 0..MaxReviews /\ DOMAIN reviews = 1..Evidence!Last /\ MaxReviews \in Nat
         /\ (reviews # <<>> => Evidence!Last \in 1..MaxReviews /\ Evidence!Current \in Evidence!Review)
         /\ \A a \in 1..Evidence!Last : reviews[a] \in Evidence!Review /\ a \in 1..MaxReviews
<1>1. reviews \in Seq(Evidence!Review) /\ Len(reviews) =< MaxReviews BY DEF Evidence!EvidenceTypeOK
<1>2. MaxReviews \in Nat BY AgentServicesAssumption DEF Evidence!EvidenceBounds
<1>3. \A a \in 1..Len(reviews) : reviews[a] \in Evidence!Review BY <1>1, ElementOfSeq
<1>4. reviews # <<>> => Len(reviews) # 0 BY <1>1, EmptySeq
<1>5. Len(reviews) \in Nat /\ DOMAIN reviews = 1..Len(reviews) BY <1>1
<1> QED BY <1>1, <1>2, <1>3, <1>4, <1>5 DEF Evidence!Last, Evidence!Current

\* A stage comes from the Attempt itself or, imported, from the one before.
LEMMA OriginIsNear ==
  ASSUME Evidence!EvidenceTypeOK, Evidence!InputsTrue, NEW a \in 1..Evidence!Last, NEW x \in Evidence!Axes
  PROVE  /\ (Evidence!Has(reviews[a].inputs, x) =>
              /\ Evidence!Origin(a, x) = a - 1 /\ a - 1 \in 1..Evidence!Last /\ a - 1 < a
                 /\ actual[a - 1][x] \in Evidence!Verdicts
              /\ reviews[a - 1].context = reviews[a].context)
         /\ (~Evidence!Has(reviews[a].inputs, x) => Evidence!Origin(a, x) = a)
<1>1. CASE Evidence!Has(reviews[a].inputs, x)
  <2>1. PICK i \in reviews[a].inputs : i.stage = x BY <1>1 DEF Evidence!Has
  <2>2. \A j \in reviews[a].inputs : j.of = a - 1 BY DEF Evidence!InputsTrue
  <2>3. Evidence!Origin(a, x) = a - 1 BY <1>1, <2>1, <2>2 DEF Evidence!Origin
  <2>4. i.of # 0 /\ i.of = a - 1 /\ reviews[a - 1].context = reviews[a].context
          /\ actual[a - 1][x] \in Evidence!Verdicts
    BY <2>1 DEF Evidence!InputsTrue
  <2>5. a - 1 \in 1..Evidence!Last /\ a - 1 < a BY <2>4, ReviewsAreTyped
  <2> QED BY <1>1, <2>3, <2>4, <2>5
<1>2. CASE ~Evidence!Has(reviews[a].inputs, x) BY <1>2 DEF Evidence!Origin
<1> QED BY <1>1, <1>2

LEMMA EarnedStays ==
  ASSUME Evidence!EvidenceInv, NEW a \in 1..Evidence!Last, NEW r, Evidence!EarnedBy(a, r), reviews[a].receipt.of # 0,
         reviews'[a].inputs = reviews[a].inputs, reviews'[a].receipt = reviews[a].receipt,
         \A o \in {a, a - 1} \ {0} : actual'[o] = actual[o] /\ reviews'[o].context = reviews[o].context
  PROVE  Evidence!EarnedBy(a, r)'
<1> USE DEF Evidence!EvidenceInv
<1>1. a # 0 /\ \A x \in Evidence!Axes : Evidence!Origin(a, x) \in {a, a - 1} \ {0} BY OriginIsNear
<1>2. reviews[a].receipt.of \in {a, a - 1} \ {0} BY DEF Evidence!ReceiptsTrue
<1>3. \A x \in Evidence!Axes : Evidence!Origin(a, x)' = Evidence!Origin(a, x) BY DEF Evidence!Origin
<1>4. "Standards" \in Evidence!Axes /\ "Spec" \in Evidence!Axes BY DEF Evidence!Axes
<1> DEFINE v == actual[reviews[a].receipt.of].validation
           f == [x \in Evidence!Axes |-> actual[Evidence!Origin(a, x)][x]]
           S == {reviews[a].receipt.of, Evidence!Origin(a, "Standards"), Evidence!Origin(a, "Spec")}
<1>5. v' = v BY <1>2
<1>6. f' = f BY <1>1, <1>3
<1>7. S' = S /\ \A o \in S : reviews'[o].context = reviews[o].context BY <1>1, <1>2, <1>3, <1>4
<1>8. r = Evidence!Aggregate(f, v) /\ (\A o \in S : reviews[o].context = reviews[a].context)
      /\ (\A x \in Evidence!Axes : f[x] \in Evidence!Verdicts) /\ v \in Evidence!Verdicts
  BY DEF Evidence!EarnedBy
<1>9. reviews'[a].context = reviews[a].context BY <1>1
<1> HIDE DEF v, f, S
<1>10. (r = Evidence!Aggregate(f, v))' /\ (\A o \in S : reviews[o].context = reviews[a].context)'
       /\ (\A x \in Evidence!Axes : f[x] \in Evidence!Verdicts)' /\ (v \in Evidence!Verdicts)'
  BY <1>5, <1>6, <1>7, <1>8, <1>9 DEF Evidence!Aggregate
<1> QED BY <1>10 DEF Evidence!EarnedBy, v, f, S

\* What an Attempt has earned rests on itself and on the Attempt before: whatever the last
\* Attempt comes to, the verdicts before it are as earned as they were.
LEMMA LedgerKeeps ==
  ASSUME Evidence!EvidenceInv, reviews' \in Seq(Evidence!Review), Evidence!Last' = Evidence!Last,
         \A a \in 1..Evidence!Last : reviews'[a].inputs = reviews[a].inputs
           /\ reviews'[a].context = reviews[a].context,
         \A a \in 1..Evidence!Last : a # Evidence!Last => reviews'[a] = reviews[a] /\ actual'[a] = actual[a],
         \A a \in 1..Evidence!Last : a # Evidence!Last => files'[a].final \in {files[a].final, "spoiled"},
         Evidence!Last # 0 /\ reviews'[Evidence!Last].receipt.of # 0 =>
           /\ reviews'[Evidence!Last].receipt.of \in {Evidence!Last, Evidence!Last - 1}
           /\ reviews[reviews'[Evidence!Last].receipt.of].context = reviews[Evidence!Last].context
           /\ reviews'[Evidence!Last].receipt.status \in Evidence!Verdicts
           /\ reviews'[Evidence!Last].receipt.status = actual'[reviews'[Evidence!Last].receipt.of].validation,
         Evidence!Last # 0 /\ reviews'[Evidence!Last].result \in Evidence!Verdicts =>
           /\ reviews'[Evidence!Last].phase = "settled" /\ reviews'[Evidence!Last].receipt.of # 0
           /\ \A n \in 1..Evidence!Last : n = Evidence!Last => Evidence!EarnedBy(n, reviews[n].result)'
  PROVE  (Evidence!ReceiptsTrue /\ Evidence!InputsTrue /\ Evidence!ResultsSettled /\ Evidence!VerdictIsEarned)'
<1> USE DEF Evidence!EvidenceInv
<1> DEFINE L == Evidence!Last
<1>1. L \in 0..MaxReviews /\ MaxReviews \in Nat /\ DOMAIN reviews = 1..L BY ReviewsAreTyped
<1>2. DOMAIN reviews' = 1..L BY DEF Evidence!Last
<1>3. L' = L OBVIOUS
<1> HIDE DEF L
<1>4. Evidence!ReceiptsTrue'
  <2>1. SUFFICES ASSUME NEW a \in 1..L, reviews'[a].receipt.of # 0
                 PROVE  /\ reviews'[a].receipt.of \in {a, a - 1}
                        /\ reviews'[reviews'[a].receipt.of].context = reviews'[a].context
                        /\ reviews'[a].receipt.status \in Evidence!Verdicts
                        /\ reviews'[a].receipt.status = actual'[reviews'[a].receipt.of].validation
    BY <1>3 DEF Evidence!ReceiptsTrue, L
  <2>2. CASE a = L
    <3>1. reviews'[L].receipt.of \in 1..L
      <4>1. reviews'[L] \in Evidence!Review BY <1>1, <1>2, <1>3, <2>2, ElementOfSeq DEF Evidence!Last, L
      <4>2. reviews'[L].receipt.of \in Nat \ {0} BY <2>1, <2>2, <4>1 DEF Evidence!Review
      <4> QED BY <1>1, <2>1, <2>2, <4>2 DEF L
    <3> QED BY <1>1, <2>1, <2>2, <3>1 DEF L
  <2>3. CASE a # L
    <3>1. reviews'[a] = reviews[a] /\ a < L BY <1>1, <2>3 DEF L
    <3>2. reviews[a].receipt.of \in {a, a - 1} /\ reviews[reviews[a].receipt.of].context = reviews[a].context
          /\ reviews[a].receipt.status \in Evidence!Verdicts
             /\ reviews[a].receipt.status = actual[reviews[a].receipt.of].validation
      BY <2>1, <3>1 DEF Evidence!ReceiptsTrue, L
    <3>3. reviews[a].receipt.of \in 1..L /\ reviews[a].receipt.of # L BY <1>1, <2>1, <3>1, <3>2
    <3> QED BY <3>1, <3>2, <3>3 DEF L
  <2> QED BY <2>2, <2>3
<1>5. Evidence!InputsTrue'
  <2>1. SUFFICES ASSUME NEW a \in 1..L, NEW i \in reviews'[a].inputs
                 PROVE  /\ i.of # 0 /\ i.of = a - 1 /\ reviews'[a - 1].context = reviews'[a].context
                        /\ i.stage \in Evidence!Axes => actual'[a - 1][i.stage] \in Evidence!Verdicts
                        /\ i.stage = "final" =>
                             /\ files'[a - 1].final \in Evidence!Verdicts \union {"spoiled"}
                             /\ \A x \in Evidence!Axes : Evidence!Has(reviews'[a].inputs, x)
    BY <1>3 DEF Evidence!InputsTrue, L
  <2>2. reviews'[a].inputs = reviews[a].inputs BY DEF L
  <2>3. /\ i.of # 0 /\ i.of = a - 1 /\ reviews[a - 1].context = reviews[a].context
        /\ i.stage \in Evidence!Axes => actual[a - 1][i.stage] \in Evidence!Verdicts
        /\ i.stage = "final" =>
             files[a - 1].final \in Evidence!Verdicts \union {"spoiled"}
               /\ \A x \in Evidence!Axes : Evidence!Has(reviews[a].inputs, x)
    BY <2>2 DEF Evidence!InputsTrue, L
  <2>4. a - 1 \in 1..L /\ a - 1 # L BY <1>1, <2>3
  <2>5. reviews'[a - 1] = reviews[a - 1] /\ actual'[a - 1] = actual[a - 1]
          /\ files'[a - 1].final \in {files[a - 1].final, "spoiled"}
    BY <2>4 DEF L
  <2>6. reviews'[a].context = reviews[a].context BY DEF L
  <2> QED BY <2>2, <2>3, <2>5, <2>6
<1>6. Evidence!ResultsSettled' BY <1>1, <1>3 DEF Evidence!ResultsSettled, L
<1>7. Evidence!VerdictIsEarned'
  <2>1. SUFFICES ASSUME NEW a \in 1..L, reviews'[a].result \in Evidence!Verdicts
                 PROVE  Evidence!EarnedBy(a, reviews[a].result)'
    BY <1>2, <1>3 DEF Evidence!VerdictIsEarned
  <2>2. CASE a = L BY <1>1, <2>1, <2>2 DEF L
  <2>3. CASE a # L
    <3>1. reviews'[a] = reviews[a] /\ actual'[a] = actual[a] BY <2>3 DEF L
    <3>2. Evidence!EarnedBy(a, reviews[a].result) /\ reviews[a].receipt.of # 0
      BY <1>1, <2>1, <3>1 DEF Evidence!VerdictIsEarned, Evidence!ResultsSettled, L
    <3>3. \A o \in {a, a - 1} \ {0} : o \in 1..L /\ o # L BY <1>1, <2>3
    <3>4. \A o \in {a, a - 1} \ {0} : reviews'[o] = reviews[o] /\ actual'[o] = actual[o] BY <3>3 DEF L
    <3> QED BY <3>1, <3>2, <3>4, EarnedStays DEF L
  <2> QED BY <2>2, <2>3
<1> QED BY <1>4, <1>5, <1>6, <1>7

LEMMA ReviewUpdated ==
  ASSUME Evidence!EvidenceTypeOK, reviews # <<>>, NEW review \in Evidence!Review, Evidence!Updates(review)
  PROVE  /\ reviews' \in Seq(Evidence!Review) /\ Len(reviews') =< MaxReviews /\ Evidence!Last' = Evidence!Last
            /\ reviews' # <<>>
         /\ reviews'[Evidence!Last] = review /\ \A a \in 1..Evidence!Last : a # Evidence!Last
            => reviews'[a] = reviews[a]
<1>1. reviews \in Seq(Evidence!Review) /\ Len(reviews) =< MaxReviews BY DEF Evidence!EvidenceTypeOK
<1>2. Evidence!Last \in 1..Len(reviews) BY ReviewsAreTyped DEF Evidence!Last
<1>3. reviews' = [reviews EXCEPT ![Evidence!Last] = review] BY DEF Evidence!Updates
<1>4. /\ reviews' \in Seq(Evidence!Review) /\ Len(reviews') = Len(reviews)
      /\ \A j \in 1..Len(reviews) : reviews'[j] = IF j = Evidence!Last THEN review ELSE reviews[j]
  BY <1>1, <1>2, <1>3, ExceptSeq
<1>5. reviews' # <<>> BY <1>2, <1>4, EmptySeq
<1> QED BY <1>1, <1>2, <1>4, <1>5 DEF Evidence!Last

\* The receipt of the last Attempt, when neither it nor its validation changes.
LEMMA ReceiptStays ==
  ASSUME Evidence!EvidenceInv, Evidence!Last # 0, reviews'[Evidence!Last].receipt = reviews[Evidence!Last].receipt,
    reviews'[Evidence!Last].receipt.of # 0,
         \A a \in 1..Evidence!Last : actual'[a].validation = actual[a].validation
  PROVE  /\ reviews'[Evidence!Last].receipt.of \in {Evidence!Last, Evidence!Last - 1}
         /\ reviews[reviews'[Evidence!Last].receipt.of].context = reviews[Evidence!Last].context
         /\ reviews'[Evidence!Last].receipt.status \in Evidence!Verdicts
         /\ reviews'[Evidence!Last].receipt.status = actual'[reviews'[Evidence!Last].receipt.of].validation
<1>1. Evidence!Last \in 1..MaxReviews /\ MaxReviews \in Nat /\ reviews[Evidence!Last] \in Evidence!Review
  BY ReviewsAreTyped DEF Evidence!EvidenceInv
<1>2. reviews[Evidence!Last].receipt.of \in 1..Evidence!Last
  BY <1>1 DEF Evidence!EvidenceInv, Evidence!ReceiptsTrue, Evidence!Review
<1> QED BY <1>1, <1>2 DEF Evidence!EvidenceInv, Evidence!ReceiptsTrue

\* A step that ends the last Attempt, with nothing or with what it earned.
LEMMA SettlesKeep ==
  ASSUME Evidence!EvidenceInv, Evidence!Phase("prepared")
    \/ Evidence!Running, NEW r \in Evidence!Verdicts \union {"none", "blocked"}, Evidence!Settles(r),
         r \in Evidence!Verdicts => Evidence!Running /\ Evidence!EarnedBy(Evidence!Last, r),
         files' \in Evidence!Checkpoints, actual' = actual, reviewer' \in Evidence!Memory,
         \A a \in 1..MaxReviews, s \in Evidence!Stages : files'[a][s] = files[a][s] \/ (a = Evidence!Last
           /\ s = "final")
  PROVE  Evidence!EvidenceInv'
<1> USE DEF Evidence!EvidenceInv
<1>1. reviews # <<>> /\ Evidence!Last \in 1..MaxReviews /\ MaxReviews \in Nat /\ Evidence!Current \in Evidence!Review
  BY ReviewsAreTyped DEF Evidence!Running, Evidence!Phase
<1> DEFINE review == [Evidence!Current EXCEPT !.phase = "settled", !.result = r]
<1>2. /\ review \in Evidence!Review /\ review.phase = "settled" /\ review.result = r
         /\ review.inputs = Evidence!Current.inputs
      /\ review.context = Evidence!Current.context /\ review.receipt = Evidence!Current.receipt
  BY <1>1 DEF Evidence!Review
<1>3. Evidence!Updates(review) BY DEF Evidence!Settles
<1> HIDE DEF review
<1>4. /\ reviews' \in Seq(Evidence!Review) /\ Len(reviews') =< MaxReviews /\ Evidence!Last' = Evidence!Last
         /\ reviews' # <<>>
      /\ reviews'[Evidence!Last] = review /\ \A a \in 1..Evidence!Last : a # Evidence!Last => reviews'[a] = reviews[a]
  BY <1>1, <1>2, <1>3, ReviewUpdated
<1>5. Evidence!EvidenceTypeOK' BY <1>4 DEF Evidence!EvidenceTypeOK
<1>6. Evidence!FilesTrue'
  <2>1. \A s \in Evidence!Proofs : s \in Evidence!Stages /\ s # "final"
    BY DEF Evidence!Proofs, Evidence!Stages, Evidence!Axes
  <2> QED BY <2>1 DEF Evidence!FilesTrue, Evidence!Valid
<1>7. \A a \in 1..Evidence!Last : reviews'[a].inputs = reviews[a].inputs /\ reviews'[a].context = reviews[a].context
      /\ reviews'[a].receipt = reviews[a].receipt
  BY <1>2, <1>4 DEF Evidence!Current
<1>8. ~Evidence!Running' BY <1>2, <1>4 DEF Evidence!Running, Evidence!Phase, Evidence!Current
<1>9. ASSUME r \in Evidence!Verdicts, NEW n \in 1..Evidence!Last, n = Evidence!Last
      PROVE  reviews'[n].receipt.of # 0 /\ Evidence!EarnedBy(n, reviews[n].result)'
  <2>1. reviews[n].receipt.of # 0 BY <1>9 DEF Evidence!MemoryTrue, Evidence!Current
  <2>2. Evidence!EarnedBy(n, r)' BY <1>1, <1>7, <1>9, <2>1, EarnedStays
  <2>3. reviews'[n].result = r BY <1>2, <1>4, <1>9
  <2> QED BY <1>7, <2>1, <2>2, <2>3
<1>10. Evidence!Last # 0 /\ reviews'[Evidence!Last].receipt = reviews[Evidence!Last].receipt
         /\ Evidence!Last \in 1..Evidence!Last
  BY <1>1, <1>7
<1>11. \A a \in 1..Evidence!Last : a # Evidence!Last => files'[a].final \in {files[a].final, "spoiled"}
  BY <1>1 DEF Evidence!Stages
<1>12. (Evidence!ReceiptsTrue /\ Evidence!InputsTrue /\ Evidence!ResultsSettled /\ Evidence!VerdictIsEarned)'
  BY <1>2, <1>4, <1>6, <1>7, <1>9, <1>10, <1>11, LedgerKeeps, ReceiptStays
<1>13. Evidence!MemoryTrue' BY <1>8 DEF Evidence!MemoryTrue
<1> QED BY <1>5, <1>6, <1>12, <1>13

\* A step of the extension, or of a hand on the files, between two saves of the ledger.
LEMMA FilesKeep ==
  ASSUME Evidence!EvidenceInv, UNCHANGED <<reviews, actual>>, files' \in Evidence!Checkpoints,
         \A a \in 1..MaxReviews, s \in Evidence!Stages :
            files'[a][s] \in {files[a][s], "spoiled"} \/ (a = Evidence!Last /\ s \in {"preflight", "final"})
  PROVE  (Evidence!FilesTrue /\ Evidence!ReceiptsTrue /\ Evidence!InputsTrue /\ Evidence!ResultsSettled
    /\ Evidence!VerdictIsEarned)'
<1> USE DEF Evidence!EvidenceInv
<1>1. Evidence!Last' = Evidence!Last /\ Evidence!Last \in 0..MaxReviews /\ MaxReviews \in Nat
        /\ reviews' \in Seq(Evidence!Review)
      /\ DOMAIN reviews = 1..Evidence!Last
  BY ReviewsAreTyped DEF Evidence!Last, Evidence!EvidenceTypeOK
<1>2. Evidence!FilesTrue'
  <2>1. \A s \in Evidence!Proofs : s \in Evidence!Stages /\ s \notin {"preflight", "final"}
    BY DEF Evidence!Proofs, Evidence!Stages, Evidence!Axes
  <2> QED BY <2>1 DEF Evidence!FilesTrue, Evidence!Valid
<1>3. \A a \in 1..Evidence!Last : a # Evidence!Last => files'[a].final \in {files[a].final, "spoiled"}
  BY <1>1 DEF Evidence!Stages
<1>4. ASSUME NEW n \in 1..Evidence!Last, n = Evidence!Last, reviews[n].result \in Evidence!Verdicts
      PROVE  reviews[n].phase = "settled" /\ reviews[n].receipt.of # 0 /\ Evidence!EarnedBy(n, reviews[n].result)'
  <2>1. reviews[n].phase = "settled" /\ reviews[n].receipt.of # 0 BY <1>4 DEF Evidence!ResultsSettled
  <2>2. Evidence!EarnedBy(n, reviews[n].result) BY <1>1, <1>4 DEF Evidence!VerdictIsEarned
  <2> QED BY <2>1, <2>2, EarnedStays
<1>5. Evidence!Last # 0 => Evidence!Last \in 1..Evidence!Last BY <1>1
<1> QED BY <1>1, <1>2, <1>3, <1>4, <1>5, LedgerKeeps, ReceiptStays

LEMMA SpoilsKeeps ==
  ASSUME Evidence!EvidenceInv, NEW a \in 1..MaxReviews, NEW stage \in Evidence!Stages, Evidence!Spoils(a, stage)
  PROVE  Evidence!EvidenceInv'
<1> USE DEF Evidence!EvidenceInv
<1>1. UNCHANGED <<reviews, reviewer, actual>> /\ files' = [files EXCEPT ![a][stage] = "spoiled"]
  BY DEF Evidence!Spoils
<1>2. files' \in Evidence!Checkpoints BY <1>1 DEF Evidence!EvidenceTypeOK, Evidence!Checkpoints
<1>3. \A b \in 1..MaxReviews, s \in Evidence!Stages : files'[b][s] \in {files[b][s], "spoiled"}
  BY <1>1 DEF Evidence!EvidenceTypeOK, Evidence!Checkpoints
<1>4. Evidence!MemoryTrue'
  BY <1>1 DEF Evidence!MemoryTrue, Evidence!Running, Evidence!Phase, Evidence!Current, Evidence!Last, Evidence!Origin,
     Evidence!Imported, Evidence!Complete
<1> QED BY <1>1, <1>2, <1>3, <1>4, FilesKeep DEF Evidence!EvidenceTypeOK

LEMMA LaunchesKeeps ==
  ASSUME Evidence!EvidenceInv, Evidence!Overflows \/ \E axes \in Evidence!Calls : Evidence!Launches(axes)
  PROVE  Evidence!EvidenceInv'
<1> USE DEF Evidence!EvidenceInv
<1>1. UNCHANGED <<reviews, files, actual>> /\ reviewer \in Evidence!Memory /\ Evidence!Running
  BY DEF Evidence!Overflows, Evidence!Launches, Evidence!EvidenceTypeOK
<1>2. /\ reviewer' \in Evidence!Memory /\ reviewer'.axes = reviewer.axes /\ reviewer'.proposal = reviewer.proposal
      /\ reviewer'.preflight = reviewer.preflight
      /\ \A x \in reviewer'.flying : reviewer.axes[x] = "none" /\ reviewer.preflight = "ok"
  <2>1. CASE Evidence!Overflows BY <1>1, <2>1 DEF Evidence!Overflows, Evidence!Memory, Evidence!MemoryTrue
  <2>2. CASE \E axes \in Evidence!Calls : Evidence!Launches(axes)
    <3>1. PICK axes \in Evidence!Calls : Evidence!Launches(axes) BY <2>2
    <3> DEFINE launched == [x \in Evidence!Axes |-> IF x \in axes THEN reviewer.launched[x] + 1
          ELSE reviewer.launched[x]]
    <3>2. launched \in [Evidence!Axes -> Nat] BY <1>1 DEF Evidence!Memory
    <3>3. axes \subseteq Evidence!Axes BY DEF Evidence!Calls
    <3>4. /\ reviewer' = [reviewer EXCEPT !.flying = axes, !.retry = @ \ axes, !.launched = launched]
          /\ reviewer.preflight = "ok" /\ \A x \in axes : reviewer.axes[x] = "none"
      BY <3>1 DEF Evidence!Launches, Evidence!StartupAllowed
    <3> HIDE DEF launched
    <3>5. reviewer' \in Evidence!Memory BY <1>1, <3>2, <3>3, <3>4 DEF Evidence!Memory
    <3> QED BY <1>1, <3>4, <3>5 DEF Evidence!Memory
  <2> QED BY <2>1, <2>2
<1>3. Evidence!MemoryTrue'
  BY <1>1, <1>2 DEF Evidence!MemoryTrue, Evidence!Running, Evidence!Phase, Evidence!Current, Evidence!Last,
     Evidence!Origin, Evidence!Imported, Evidence!Complete
<1>4. files' \in Evidence!Checkpoints
        /\ \A b \in 1..MaxReviews, s \in Evidence!Stages : files'[b][s] \in {files[b][s], "spoiled"}
  BY <1>1 DEF Evidence!EvidenceTypeOK
<1> QED BY <1>1, <1>2, <1>3, <1>4, FilesKeep DEF Evidence!EvidenceTypeOK

LEMMA PreflightsKeep ==
  ASSUME Evidence!EvidenceInv, Evidence!Preflights
  PROVE  Evidence!EvidenceInv'
<1> USE DEF Evidence!EvidenceInv
<1>1. /\ UNCHANGED <<reviews, actual>> /\ reviewer \in Evidence!Memory /\ files \in Evidence!Checkpoints
         /\ Evidence!Running
      /\ Evidence!Last \in 1..MaxReviews /\ reviewer.preflight = "none"
  BY ReviewsAreTyped DEF Evidence!Preflights, Evidence!EvidenceTypeOK, Evidence!Running, Evidence!Phase
<1> DEFINE own      == IF Evidence!Imported("preflight") THEN files
      ELSE [files EXCEPT ![Evidence!Last].preflight = "pass"]
           proposal == IF Evidence!Complete(reviewer.axes) THEN Evidence!Aggregate(reviewer.axes,
             Evidence!Current.receipt.status)
                       ELSE reviewer.proposal
           final    == IF Evidence!Complete(reviewer.axes) /\ reviewer.proposal = "none"
                         THEN [own EXCEPT ![Evidence!Last].final = proposal] ELSE own
<1>2. /\ files' \in {files, own, final}
      /\ \/ reviewer' = [reviewer EXCEPT !.preflight = "failed"]
         \/ reviewer' = [reviewer EXCEPT !.preflight = "ok", !.proposal = proposal]
  BY DEF Evidence!Preflights, Evidence!PreflightFails, Evidence!MayPublish
<1>3. proposal \in Evidence!Verdicts \union {"none"}
  BY <1>1 DEF Evidence!Memory, Evidence!Aggregate, Evidence!Verdicts
<1>4. "preflight" \in Evidence!Stages /\ "final" \in Evidence!Stages /\ "pass" \in Evidence!Verdicts
  BY DEF Evidence!Stages, Evidence!Verdicts
<1>5. own \in Evidence!Checkpoints /\ \A b \in 1..MaxReviews, s \in Evidence!Stages :
        own[b][s] = files[b][s] \/ (b = Evidence!Last /\ s = "preflight")
  BY <1>1, <1>4 DEF Evidence!Checkpoints
<1>6. final \in Evidence!Checkpoints /\ \A b \in 1..MaxReviews, s \in Evidence!Stages :
        final[b][s] = own[b][s] \/ (b = Evidence!Last /\ s = "final")
  <2> HIDE DEF own, proposal
  <2>1. Evidence!NoFile = "none" BY DEF Evidence!NoFile
  <2> QED BY <1>1, <1>3, <1>4, <1>5, <2>1 DEF Evidence!Checkpoints
<1>7. files' \in Evidence!Checkpoints /\ \A b \in 1..MaxReviews, s \in Evidence!Stages :
        files'[b][s] = files[b][s] \/ (b = Evidence!Last /\ s \in {"preflight", "final"})
  <2> HIDE DEF own, final
  <2> QED BY <1>1, <1>2, <1>5, <1>6
<1>8. reviewer.flying = {} BY <1>1 DEF Evidence!MemoryTrue, Evidence!Memory
<1>9. ~Evidence!Complete(reviewer.axes) => reviewer.proposal = "none" /\ proposal = "none"
  BY <1>1 DEF Evidence!MemoryTrue
<1>10. Evidence!Complete(reviewer.axes)
         => proposal = Evidence!Aggregate(reviewer.axes, Evidence!Current.receipt.status)
  OBVIOUS
<1> HIDE DEF own, final, proposal
<1>11. /\ reviewer' \in Evidence!Memory /\ reviewer'.axes = reviewer.axes /\ reviewer'.flying = {}
       /\ \/ reviewer'.preflight = "failed" /\ reviewer'.proposal = reviewer.proposal
          \/ reviewer'.preflight = "ok" /\ reviewer'.proposal = proposal
  <2>1. \A p \in {"ok", "failed"} : [reviewer EXCEPT !.preflight = p] \in Evidence!Memory
    BY <1>1 DEF Evidence!Memory
  <2>2. [reviewer EXCEPT !.preflight = "ok", !.proposal = proposal] \in Evidence!Memory
    BY <1>1, <1>3 DEF Evidence!Memory
  <2> QED BY <1>1, <1>2, <1>8, <2>1, <2>2 DEF Evidence!Memory
<1>12. Evidence!MemoryTrue'
  BY <1>1, <1>9, <1>10, <1>11
  DEF Evidence!MemoryTrue, Evidence!Running, Evidence!Phase, Evidence!Current, Evidence!Last, Evidence!Origin,
     Evidence!Imported, Evidence!Complete, Evidence!Aggregate
<1> QED BY <1>1, <1>7, <1>11, <1>12, FilesKeep DEF Evidence!EvidenceTypeOK

\* What the extension may submit is earned.
LEMMA SubmitsWhatItEarned ==
  ASSUME Evidence!EvidenceInv, Evidence!Running, NEW status \in Evidence!Verdicts, Evidence!MaySubmit(status)
  PROVE  Evidence!EarnedBy(Evidence!Last, status)
<1> USE DEF Evidence!EvidenceInv
<1>1. SUFFICES ASSUME NEW n \in 1..Evidence!Last, n = Evidence!Last PROVE Evidence!EarnedBy(n, status)
  BY ReviewsAreTyped DEF Evidence!Running, Evidence!Phase
<1>2. reviewer \in Evidence!Memory /\ Evidence!Current = reviews[n]
  BY <1>1 DEF Evidence!EvidenceTypeOK, Evidence!Current
<1>3. reviews[n].receipt.of # 0 BY <1>2 DEF Evidence!MemoryTrue
<1>4. /\ reviews[reviews[n].receipt.of].context = reviews[n].context
         /\ reviews[n].receipt.status \in Evidence!Verdicts
      /\ reviews[n].receipt.status = actual[reviews[n].receipt.of].validation
  BY <1>3 DEF Evidence!ReceiptsTrue
<1>5. \A x \in Evidence!Axes : reviewer.axes[x] \in Evidence!Verdicts
        /\ reviewer.axes[x] = actual[Evidence!Origin(n, x)][x]
  BY <1>1, <1>2 DEF Evidence!MaySubmit, Evidence!Complete, Evidence!MemoryTrue, Evidence!Memory
<1>6. \A x \in Evidence!Axes : reviews[Evidence!Origin(n, x)].context = reviews[n].context BY OriginIsNear
<1>7. status = Evidence!Aggregate(reviewer.axes, reviews[n].receipt.status) BY <1>2 DEF Evidence!MaySubmit
<1>8. "Standards" \in Evidence!Axes /\ "Spec" \in Evidence!Axes BY DEF Evidence!Axes
<1> DEFINE f == [x \in Evidence!Axes |-> actual[Evidence!Origin(n, x)][x]]
<1>9. \A x \in Evidence!Axes : f[x] = reviewer.axes[x] BY <1>5
<1> HIDE DEF f
<1>10. Evidence!Aggregate(reviewer.axes, reviews[n].receipt.status) = Evidence!Aggregate(f, reviews[n].receipt.status)
  BY <1>8, <1>9 DEF Evidence!Aggregate
<1>11. \A x \in Evidence!Axes : f[x] \in Evidence!Verdicts BY <1>5, <1>9
<1> QED BY <1>4, <1>6, <1>7, <1>8, <1>10, <1>11 DEF Evidence!EarnedBy, f

LEMMA EndsKeep ==
  ASSUME Evidence!EvidenceInv, Evidence!BlocksReviewer \/ Evidence!EndsTurn \/ Evidence!SubmitsBlocked
    \/ \E status \in Evidence!Verdicts : Evidence!Submits(status)
  PROVE  Evidence!EvidenceInv'
<1> USE DEF Evidence!EvidenceInv
<1>1. files \in Evidence!Checkpoints /\ reviewer \in Evidence!Memory /\ Evidence!NoReviewer \in Evidence!Memory
  BY DEF Evidence!EvidenceTypeOK, Evidence!NoReviewer, Evidence!Memory
<1>2. CASE Evidence!BlocksReviewer \/ Evidence!EndsTurn
  <2>1. "none" \notin Evidence!Verdicts BY DEF Evidence!Verdicts
  <2> QED BY <1>1, <1>2, <2>1, SettlesKeep DEF Evidence!BlocksReviewer, Evidence!EndsTurn, Evidence!Running
<1>3. CASE \E status \in Evidence!Verdicts : Evidence!Submits(status)
  BY <1>1, <1>3, SettlesKeep, SubmitsWhatItEarned DEF Evidence!Submits
<1>4. CASE Evidence!SubmitsBlocked
  <2>1. Evidence!Running /\ actual' = actual /\ Evidence!Last \in 1..MaxReviews
    BY <1>4, ReviewsAreTyped DEF Evidence!SubmitsBlocked, Evidence!Running, Evidence!Phase
  <2>2. files' = files \/ files' = [files EXCEPT ![Evidence!Last].final = "blocked"]
    BY <1>4 DEF Evidence!SubmitsBlocked, Evidence!Publishes
  <2>3. files' \in Evidence!Checkpoints /\ \A b \in 1..MaxReviews, s \in Evidence!Stages :
          files'[b][s] = files[b][s] \/ (b = Evidence!Last /\ s = "final")
    <3>1. CASE files' = files BY <1>1, <3>1
    <3>2. CASE files' = [files EXCEPT ![Evidence!Last].final = "blocked"]
      BY <1>1, <2>1, <3>2 DEF Evidence!Checkpoints, Evidence!Stages
    <3> QED BY <2>2, <3>1, <3>2
  <2>4. CASE Evidence!Settles("blocked") /\ reviewer' = Evidence!NoReviewer
    <3>1. "blocked" \notin Evidence!Verdicts BY DEF Evidence!Verdicts
    <3> QED BY <1>1, <2>1, <2>3, <2>4, <3>1, SettlesKeep
  <2>5. CASE UNCHANGED <<reviews, reviewer>>
    <3>1. Evidence!MemoryTrue'
      BY <2>1, <2>5 DEF Evidence!MemoryTrue, Evidence!Running, Evidence!Phase, Evidence!Current, Evidence!Last,
         Evidence!Origin, Evidence!Imported, Evidence!Complete
    <3> QED BY <2>1, <2>3, <2>5, <3>1, FilesKeep DEF Evidence!EvidenceTypeOK
  <2> QED BY <1>4, <2>4, <2>5 DEF Evidence!SubmitsBlocked
<1> QED BY <1>2, <1>3, <1>4

\* The extension starts from the checkpoints of the Attempt it retries, intact.
LEMMA StartsReviewerKeeps ==
  ASSUME Evidence!EvidenceInv, Evidence!StartsReviewer
  PROVE  Evidence!EvidenceInv'
<1> USE DEF Evidence!EvidenceInv
<1>1. /\ UNCHANGED <<files, actual>> /\ reviews # <<>> /\ Evidence!Last \in 1..MaxReviews /\ MaxReviews \in Nat
         /\ Evidence!Current \in Evidence!Review
      /\ Evidence!Current.phase = "prepared" /\ Evidence!Current.receipt.of # 0
         /\ Evidence!Intact(Evidence!Current.inputs)
  BY ReviewsAreTyped DEF Evidence!StartsReviewer, Evidence!Phase, Evidence!Bound
<1> DEFINE review == [Evidence!Current EXCEPT !.phase = "running"]
<1>2. /\ review \in Evidence!Review /\ review.result = Evidence!Current.result
         /\ review.inputs = Evidence!Current.inputs
      /\ review.context = Evidence!Current.context /\ review.receipt = Evidence!Current.receipt
  BY <1>1 DEF Evidence!Review
<1>3. Evidence!Updates(review) BY DEF Evidence!StartsReviewer
<1> HIDE DEF review
<1>4. /\ reviews' \in Seq(Evidence!Review) /\ Len(reviews') =< MaxReviews /\ Evidence!Last' = Evidence!Last
         /\ reviews' # <<>>
      /\ reviews'[Evidence!Last] = review /\ \A a \in 1..Evidence!Last : a # Evidence!Last => reviews'[a] = reviews[a]
  BY <1>1, <1>2, <1>3, ReviewUpdated
<1>5. SUFFICES ASSUME NEW n \in 1..Evidence!Last, n = Evidence!Last PROVE Evidence!EvidenceInv' BY <1>1
<1>6. Evidence!Current = reviews[n] /\ Evidence!Current' = review /\ reviews'[n] = review
  BY <1>4, <1>5 DEF Evidence!Current
<1>7. reviews[n].result \notin Evidence!Verdicts BY <1>1, <1>5, <1>6 DEF Evidence!ResultsSettled
<1>8. Evidence!FilesTrue' BY <1>1 DEF Evidence!FilesTrue, Evidence!Valid
<1>9. (Evidence!ReceiptsTrue /\ Evidence!InputsTrue /\ Evidence!ResultsSettled /\ Evidence!VerdictIsEarned)'
  BY <1>1, <1>2, <1>4, <1>5, <1>6, <1>7, <1>8, LedgerKeeps, ReceiptStays
<1> DEFINE axes == [x \in Evidence!Axes |-> Evidence!Input(x)]
<1>10. \A x \in Evidence!Axes :
         IF Evidence!Has(reviews[n].inputs, x)
           THEN axes[x] \in Evidence!Verdicts /\ axes[x] = actual[n - 1][x] /\ Evidence!Origin(n, x) = n - 1
           ELSE axes[x] = "none" /\ Evidence!Origin(n, x) = n
  <2> SUFFICES ASSUME NEW x \in Evidence!Axes
               PROVE  IF Evidence!Has(reviews[n].inputs, x)
                        THEN Evidence!Input(x) \in Evidence!Verdicts /\ Evidence!Input(x) = actual[n - 1][x]
                          /\ Evidence!Origin(n, x) = n - 1
                        ELSE Evidence!Input(x) = "none" /\ Evidence!Origin(n, x) = n
    OBVIOUS
  <2>1. CASE Evidence!Has(reviews[n].inputs, x)
    <3>1. PICK i \in reviews[n].inputs : i.stage = x BY <2>1 DEF Evidence!Has
    <3>2. Evidence!Origin(n, x) = n - 1 /\ n - 1 \in 1..Evidence!Last BY <2>1, OriginIsNear
    <3>3. i.of = n - 1 /\ Evidence!Valid(n - 1, x) BY <1>1, <1>6, <3>1, <3>2 DEF Evidence!InputsTrue, Evidence!Intact
    <3>4. Evidence!SourceOf(x) = n - 1 BY <1>6, <2>1, <3>2 DEF Evidence!Origin, Evidence!SourceOf
    <3>5. Evidence!Input(x) = files[n - 1][x] BY <1>6, <2>1, <3>4 DEF Evidence!Input, Evidence!Imported
    <3>6. n - 1 \in 1..MaxReviews /\ x \in Evidence!Proofs BY <1>1, <3>2 DEF Evidence!Proofs
    <3> QED BY <2>1, <3>2, <3>3, <3>5, <3>6 DEF Evidence!FilesTrue
  <2>2. CASE ~Evidence!Has(reviews[n].inputs, x) BY <1>6, <2>2, OriginIsNear DEF Evidence!Input, Evidence!Imported
  <2> QED BY <2>1, <2>2
<1>11. Evidence!Input("final") \in Evidence!Verdicts \union {"none"} /\ (Evidence!Input("final") # "none"
         => \A x \in Evidence!Axes : axes[x] # "none")
  <2>1. CASE Evidence!Has(reviews[n].inputs, "final")
    <3>1. PICK i \in reviews[n].inputs : i.stage = "final" BY <2>1 DEF Evidence!Has
    <3>2. \A j \in reviews[n].inputs : j.of = n - 1 BY DEF Evidence!InputsTrue
    <3>3. Evidence!SourceOf("final") = n - 1 BY <1>6, <3>1, <3>2 DEF Evidence!SourceOf
    <3>4. Evidence!Input("final") = files[n - 1].final BY <1>6, <2>1, <3>3 DEF Evidence!Input, Evidence!Imported
    <3>5. files[n - 1].final \in Evidence!Verdicts \union {"spoiled"}
            /\ \A x \in Evidence!Axes : Evidence!Has(reviews[n].inputs, x)
      BY <3>1 DEF Evidence!InputsTrue
    <3>6. files[n - 1].final # "spoiled" BY <1>1, <1>6, <3>1, <3>2 DEF Evidence!Intact, Evidence!Valid
    <3>7. "none" \notin Evidence!Verdicts BY DEF Evidence!Verdicts
    <3> QED BY <1>10, <3>4, <3>5, <3>6, <3>7
  <2>2. CASE ~Evidence!Has(reviews[n].inputs, "final") BY <1>6, <2>2 DEF Evidence!Input, Evidence!Imported
  <2> QED BY <2>1, <2>2
<1>12. axes \in [Evidence!Axes -> Evidence!Verdicts \union {"none"}] BY <1>10
<1>13. reviewer' = [Evidence!NoReviewer EXCEPT !.axes = axes, !.proposal = Evidence!Input("final")]
  BY DEF Evidence!StartsReviewer
<1> HIDE DEF axes
<1>14. /\ reviewer' \in Evidence!Memory /\ reviewer'.axes = axes /\ reviewer'.proposal = Evidence!Input("final")
       /\ reviewer'.flying = {} /\ reviewer'.preflight = "none"
  BY <1>11, <1>12, <1>13 DEF Evidence!NoReviewer, Evidence!Memory
<1>15. Evidence!MemoryTrue'
  <2>1. Evidence!Last' = n /\ reviews'[n].inputs = reviews[n].inputs /\ reviews'[n].receipt = reviews[n].receipt
    BY <1>2, <1>4, <1>5, <1>6
  <2>2. \A x \in Evidence!Axes : Evidence!Origin(n, x)' = Evidence!Origin(n, x) BY <2>1 DEF Evidence!Origin
  <2>3. \A x \in Evidence!Axes : axes[x] # "none" => axes[x] = actual'[Evidence!Origin(n, x)'][x] BY <1>1, <1>10, <2>2
  <2>4. \A x \in Evidence!Axes : Evidence!Has(reviews[n].inputs, x) => axes[x] # "none"
    <3>1. "none" \notin Evidence!Verdicts BY DEF Evidence!Verdicts
    <3> QED BY <1>10, <3>1
  <2>5. \A x \in Evidence!Axes : Evidence!Imported(x)' => axes[x] # "none" BY <1>2, <1>6, <2>4 DEF Evidence!Imported
  <2>6. Evidence!Current'.receipt.of # 0 BY <1>1, <1>2, <1>6
  <2>7. Evidence!Input("final") # "none" => Evidence!Complete(axes) BY <1>11 DEF Evidence!Complete
  <2>8. SUFFICES ASSUME NEW x \in Evidence!Axes
                 PROVE  axes[x] # "none" => axes[x] = actual'[Evidence!Origin(Evidence!Last, x)'][x]
    BY <1>14, <2>5, <2>6, <2>7 DEF Evidence!MemoryTrue, Evidence!Complete
  <2> QED BY <2>1, <2>3, <2>8
<1>16. Evidence!EvidenceTypeOK' BY <1>1, <1>4, <1>14 DEF Evidence!EvidenceTypeOK
<1> QED BY <1>8, <1>9, <1>15, <1>16

LEMMA ValidatesKeeps ==
  ASSUME Evidence!EvidenceInv, NEW verdict \in Evidence!Verdicts, Evidence!Validates(verdict)
  PROVE  Evidence!EvidenceInv'
<1> USE DEF Evidence!EvidenceInv
<1>1. /\ reviews # <<>> /\ Evidence!Last \in 1..MaxReviews /\ MaxReviews \in Nat
         /\ Evidence!Current \in Evidence!Review
      /\ Evidence!Current.phase = "prepared" /\ Evidence!Current.receipt.of = 0 /\ reviewer' = reviewer
      /\ files \in Evidence!Checkpoints
         /\ actual \in [1..MaxReviews -> [Evidence!Proofs -> Evidence!Verdicts \union {"none"}]]
  BY ReviewsAreTyped DEF Evidence!Validates, Evidence!Phase, Evidence!EvidenceTypeOK
<1>2. /\ files' = [files EXCEPT ![Evidence!Last]["validation"] = verdict]
         /\ actual' = [actual EXCEPT ![Evidence!Last].validation = verdict]
      /\ "validation" \in Evidence!Proofs /\ "validation" \in Evidence!Stages /\ "final" \in Evidence!Stages
  BY DEF Evidence!Validates, Evidence!Publishes, Evidence!Proofs, Evidence!Stages
<1>3. files' \in Evidence!Checkpoints /\ \A a \in 1..MaxReviews, s \in Evidence!Stages :
        files'[a][s] = IF a = Evidence!Last /\ s = "validation" THEN verdict ELSE files[a][s]
  BY <1>1, <1>2 DEF Evidence!Checkpoints
<1>4. actual' \in [1..MaxReviews -> [Evidence!Proofs -> Evidence!Verdicts \union {"none"}]]
        /\ \A a \in 1..MaxReviews :
        /\ a # Evidence!Last => actual'[a] = actual[a]
        /\ \A s \in Evidence!Proofs : actual'[a][s] = IF a = Evidence!Last /\ s = "validation" THEN verdict
           ELSE actual[a][s]
  BY <1>1, <1>2
<1> DEFINE review == [Evidence!Current EXCEPT !.receipt = [status |-> verdict, of |-> Evidence!Last]]
<1>5. /\ review \in Evidence!Review /\ review.result = Evidence!Current.result
         /\ review.inputs = Evidence!Current.inputs
      /\ review.context = Evidence!Current.context /\ review.phase = "prepared"
      /\ review.receipt.status = verdict /\ review.receipt.of = Evidence!Last
  <2>1. [status |-> verdict, of |-> Evidence!Last] \in [status : Evidence!Verdicts \union {"none"}, of : Nat] BY <1>1
  <2> QED BY <1>1, <2>1 DEF Evidence!Review
<1>6. Evidence!Updates(review) BY DEF Evidence!Validates
<1> HIDE DEF review
<1>7. /\ reviews' \in Seq(Evidence!Review) /\ Len(reviews') =< MaxReviews /\ Evidence!Last' = Evidence!Last
         /\ reviews' # <<>>
      /\ reviews'[Evidence!Last] = review /\ \A a \in 1..Evidence!Last : a # Evidence!Last => reviews'[a] = reviews[a]
  BY <1>1, <1>5, <1>6, ReviewUpdated
<1>8. SUFFICES ASSUME NEW n \in 1..Evidence!Last, n = Evidence!Last PROVE Evidence!EvidenceInv' BY <1>1
<1>9. Evidence!Current = reviews[n] /\ reviews'[n] = review BY <1>7, <1>8 DEF Evidence!Current
<1>10. reviews[n].result \notin Evidence!Verdicts BY <1>1, <1>8, <1>9 DEF Evidence!ResultsSettled
<1>11. Evidence!FilesTrue'
  <2>1. SUFFICES ASSUME NEW a \in 1..MaxReviews, NEW s \in Evidence!Proofs, files'[a][s] \notin {Evidence!NoFile,
          "spoiled"}
                 PROVE  files'[a][s] = actual'[a][s] /\ actual'[a][s] \in Evidence!Verdicts
    BY DEF Evidence!FilesTrue, Evidence!Valid
  <2>2. s \in Evidence!Stages BY DEF Evidence!Proofs, Evidence!Stages
  <2> QED BY <1>3, <1>4, <2>1, <2>2 DEF Evidence!FilesTrue, Evidence!Valid
<1>12. \A a \in 1..Evidence!Last : a # Evidence!Last => files'[a].final \in {files[a].final, "spoiled"}
  BY <1>1, <1>2, <1>3
<1>13. reviews'[n].receipt.status = actual'[n].validation BY <1>1, <1>2, <1>4, <1>5, <1>8, <1>9
<1>14. (Evidence!ReceiptsTrue /\ Evidence!InputsTrue /\ Evidence!ResultsSettled /\ Evidence!VerdictIsEarned)'
  BY <1>1, <1>4, <1>5, <1>7, <1>8, <1>9, <1>10, <1>11, <1>12, <1>13, LedgerKeeps
<1>15. ~Evidence!Running' BY <1>5, <1>7, <1>8, <1>9 DEF Evidence!Running, Evidence!Phase, Evidence!Current
<1>16. Evidence!MemoryTrue' BY <1>15 DEF Evidence!MemoryTrue
<1>17. Evidence!EvidenceTypeOK' BY <1>1, <1>3, <1>4, <1>7 DEF Evidence!EvidenceTypeOK
<1> QED BY <1>11, <1>14, <1>16, <1>17

LEMMA AxesReportKeeps ==
  ASSUME Evidence!EvidenceInv, Evidence!AxesReport
  PROVE  Evidence!EvidenceInv'
<1> USE DEF Evidence!EvidenceInv
<1>1. /\ reviews # <<>> /\ Evidence!Last \in 1..MaxReviews /\ MaxReviews \in Nat /\ Evidence!Running
         /\ reviews' = reviews /\ Evidence!Last' = Evidence!Last
      /\ files \in Evidence!Checkpoints
         /\ actual \in [1..MaxReviews -> [Evidence!Proofs -> Evidence!Verdicts \union {"none"}]]
      /\ reviewer \in Evidence!Memory /\ Evidence!Current = reviews[Evidence!Last]
         /\ reviews' \in Seq(Evidence!Review)
  BY ReviewsAreTyped DEF Evidence!AxesReport, Evidence!Running, Evidence!Phase, Evidence!EvidenceTypeOK,
     Evidence!Last, Evidence!Current
<1>2. PICK outcome \in [reviewer.flying -> Evidence!Outcomes] :
        LET reported == {x \in reviewer.flying : outcome[x] \in Evidence!Verdicts}
            axes     == [x \in Evidence!Axes |-> IF x \in reported THEN outcome[x] ELSE reviewer.axes[x]]
            ends     == Evidence!Complete(axes) /\ reviewer.proposal = "none"
            proposal == IF ends THEN Evidence!Aggregate(axes, Evidence!Current.receipt.status) ELSE reviewer.proposal
            own      == [files EXCEPT ![Evidence!Last] =
                            [s \in Evidence!Stages |-> IF s \in reported THEN outcome[s] ELSE @[s]]]
            final    == IF ends /\ own[Evidence!Last].final = Evidence!NoFile
                          THEN [own EXCEPT ![Evidence!Last].final = proposal] ELSE own
        IN  /\ Evidence!MayPublish(own, final)
            /\ actual' = [actual EXCEPT ![Evidence!Last] =
                            [s \in DOMAIN @ |-> IF s \in reported THEN outcome[s] ELSE @[s]]]
            /\ reviewer' = [reviewer EXCEPT
                    !.axes = axes, !.flying = {}, !.proposal = proposal,
                    !.retry = @ \union {x \in reviewer.flying : Evidence!MayRetry(x, outcome[x])}]
  BY DEF Evidence!AxesReport
<1> DEFINE reported == {x \in reviewer.flying : outcome[x] \in Evidence!Verdicts}
           axes     == [x \in Evidence!Axes |-> IF x \in reported THEN outcome[x] ELSE reviewer.axes[x]]
           ends     == Evidence!Complete(axes) /\ reviewer.proposal = "none"
           proposal == IF ends THEN Evidence!Aggregate(axes, Evidence!Current.receipt.status) ELSE reviewer.proposal
           stages   == [s \in Evidence!Stages |-> IF s \in reported THEN outcome[s] ELSE files[Evidence!Last][s]]
           own      == [files EXCEPT ![Evidence!Last] = stages]
           retry    == reviewer.retry \union {x \in reviewer.flying : Evidence!MayRetry(x, outcome[x])}
<1>3. reviewer.flying # {} /\ reviewer.flying \subseteq Evidence!Axes
        /\ reviewer.axes \in [Evidence!Axes -> Evidence!Verdicts \union {"none"}]
      /\ reviewer.retry \subseteq Evidence!Axes /\ reviewer.proposal \in Evidence!Verdicts \union {"none"}
  BY <1>1 DEF Evidence!AxesReport, Evidence!Memory
<1>4. reported \subseteq Evidence!Axes /\ (\A x \in reported : outcome[x] \in Evidence!Verdicts)
        /\ retry \subseteq Evidence!Axes
  BY <1>3
<1>5. axes \in [Evidence!Axes -> Evidence!Verdicts \union {"none"}] BY <1>3, <1>4
<1>6. reviewer.preflight = "ok" /\ reviewer.proposal = "none" /\ \A x \in reviewer.flying : reviewer.axes[x] = "none"
        /\ ~Evidence!Imported(x)
  BY <1>1, <1>3 DEF Evidence!MemoryTrue, Evidence!Complete
<1>7. proposal \in Evidence!Verdicts \union {"none"} BY <1>3 DEF Evidence!Aggregate, Evidence!Verdicts
<1>8. files' = own \/ files' = [own EXCEPT ![Evidence!Last].final = proposal] BY <1>2 DEF Evidence!MayPublish
<1>9. actual' = [actual EXCEPT ![Evidence!Last] =
                   [s \in Evidence!Proofs |-> IF s \in reported THEN outcome[s] ELSE actual[Evidence!Last][s]]]
  BY <1>1, <1>2
<1>10. reviewer' = [reviewer EXCEPT !.axes = axes, !.flying = {}, !.proposal = proposal, !.retry = retry] BY <1>2
<1>11. (reviewer.proposal = "none" /\ Evidence!Complete(axes)
         => proposal = Evidence!Aggregate(axes, Evidence!Current.receipt.status))
       /\ (~Evidence!Complete(axes) => proposal = reviewer.proposal)
  OBVIOUS
<1>12. \A x \in Evidence!Axes : axes[x] = IF x \in reported THEN outcome[x] ELSE reviewer.axes[x] OBVIOUS
<1>13. stages \in [Evidence!Stages -> Evidence!Verdicts \union {Evidence!NoFile, "spoiled", "blocked"}]
       /\ \A s \in Evidence!Stages : stages[s] = IF s \in reported THEN outcome[s] ELSE files[Evidence!Last][s]
  BY <1>1, <1>4 DEF Evidence!Checkpoints
<1>14. reported \subseteq reviewer.flying OBVIOUS
<1> HIDE DEF reported, axes, proposal, stages, retry
<1>15. own \in Evidence!Checkpoints /\ own[Evidence!Last] = stages /\ \A a \in 1..MaxReviews : a # Evidence!Last
         => own[a] = files[a]
  BY <1>1, <1>13 DEF Evidence!Checkpoints
<1> HIDE DEF own
<1>16. files' \in Evidence!Checkpoints
         /\ (\A s \in Evidence!Stages \ {"final"} : files'[Evidence!Last][s] = stages[s])
       /\ \A a \in 1..MaxReviews : a # Evidence!Last => files'[a] = files[a]
  <2>1. CASE files' = own BY <1>15, <2>1
  <2>2. CASE files' = [own EXCEPT ![Evidence!Last].final = proposal]
    <3>1. proposal \in Evidence!Verdicts \union {Evidence!NoFile, "spoiled", "blocked"} BY <1>7 DEF Evidence!NoFile
    <3> QED BY <1>1, <1>15, <2>2, <3>1 DEF Evidence!Checkpoints, Evidence!Stages
  <2> QED BY <1>8, <2>1, <2>2
<1>17. actual' \in [1..MaxReviews -> [Evidence!Proofs -> Evidence!Verdicts \union {"none"}]]
       /\ (\A s \in Evidence!Proofs : actual'[Evidence!Last][s] =
             IF s \in reported THEN outcome[s] ELSE actual[Evidence!Last][s])
       /\ \A a \in 1..MaxReviews : a # Evidence!Last => actual'[a] = actual[a]
  <2>1. [s \in Evidence!Proofs |-> IF s \in reported THEN outcome[s] ELSE actual[Evidence!Last][s]]
        \in [Evidence!Proofs -> Evidence!Verdicts \union {"none"}]
    BY <1>1, <1>4
  <2> QED BY <1>1, <1>9, <2>1
<1>18. /\ reviewer' \in Evidence!Memory /\ reviewer'.axes = axes /\ reviewer'.flying = {}
          /\ reviewer'.proposal = proposal
       /\ reviewer'.preflight = "ok"
  BY <1>1, <1>4, <1>5, <1>6, <1>7, <1>10 DEF Evidence!Memory
<1>19. \A s \in Evidence!Proofs : s \in Evidence!Stages /\ s # "final"
  BY DEF Evidence!Proofs, Evidence!Stages, Evidence!Axes
<1>20. Evidence!FilesTrue'
  <2>1. SUFFICES ASSUME NEW a \in 1..MaxReviews, NEW s \in Evidence!Proofs, files'[a][s] \notin {Evidence!NoFile,
          "spoiled"}
                 PROVE  files'[a][s] = actual'[a][s] /\ actual'[a][s] \in Evidence!Verdicts
    BY DEF Evidence!FilesTrue, Evidence!Valid
  <2>2. CASE a = Evidence!Last /\ s \in reported BY <1>4, <1>13, <1>16, <1>17, <1>19, <2>2
  <2>3. CASE ~(a = Evidence!Last /\ s \in reported)
    <3>1. files'[a][s] = files[a][s] /\ actual'[a][s] = actual[a][s] BY <1>13, <1>16, <1>17, <1>19, <2>3
    <3> QED BY <2>1, <3>1 DEF Evidence!FilesTrue, Evidence!Valid
  <2> QED BY <2>2, <2>3
<1>21. \A a \in 1..Evidence!Last : a # Evidence!Last => files'[a].final \in {files[a].final, "spoiled"} BY <1>1, <1>16
<1>22. \A a \in 1..Evidence!Last : actual'[a].validation = actual[a].validation
  <2>1. "validation" \in Evidence!Proofs /\ "validation" \notin reported BY <1>4 DEF Evidence!Proofs, Evidence!Axes
  <2> QED BY <1>1, <1>17, <2>1
<1>23. reviews[Evidence!Last].result \notin Evidence!Verdicts
  BY <1>1 DEF Evidence!ResultsSettled, Evidence!Running, Evidence!Phase
<1>24. (Evidence!ReceiptsTrue /\ Evidence!InputsTrue /\ Evidence!ResultsSettled /\ Evidence!VerdictIsEarned)'
  <2>1. /\ reviews' = reviews /\ Evidence!Last' = Evidence!Last /\ Evidence!EvidenceInv
        /\ reviews \in Seq(Evidence!Review)
    BY <1>1 DEF Evidence!Last
  <2>2. /\ reviews'[Evidence!Last].receipt = reviews[Evidence!Last].receipt
        /\ reviews'[Evidence!Last].receipt.of # 0 /\ Evidence!Last # 0
    <3>1. Evidence!Current.receipt.of # 0 BY <1>1 DEF Evidence!MemoryTrue
    <3>2. Evidence!Last # 0 BY <1>1
    <3> QED BY <1>1, <2>1, <3>1, <3>2
  <2>3. /\ reviews'[Evidence!Last].receipt.of \in {Evidence!Last, Evidence!Last - 1}
        /\ reviews[reviews'[Evidence!Last].receipt.of].context = reviews[Evidence!Last].context
        /\ reviews'[Evidence!Last].receipt.status \in Evidence!Verdicts
        /\ reviews'[Evidence!Last].receipt.status = actual'[reviews'[Evidence!Last].receipt.of].validation
    BY <1>22, <2>1, <2>2, ReceiptStays
  <2>4. \A a \in 1..Evidence!Last : a # Evidence!Last => reviews'[a] = reviews[a] /\ actual'[a] = actual[a]
    BY <1>1, <1>17, <2>1
  <2> QED BY <1>21, <1>23, <2>1, <2>3, <2>4, LedgerKeeps
<1>25. Evidence!MemoryTrue'
  <2>1. SUFFICES ASSUME NEW n \in 1..Evidence!Last, n = Evidence!Last PROVE Evidence!MemoryTrue' BY <1>1
  <2>2. Evidence!Current' = reviews[n] /\ Evidence!Current = reviews[n] BY <1>1, <2>1 DEF Evidence!Current
  <2>3. \A x \in Evidence!Axes : Evidence!Origin(n, x)' = Evidence!Origin(n, x) BY <1>1 DEF Evidence!Origin
  <2>4. \A x \in Evidence!Axes : x \in Evidence!Proofs BY DEF Evidence!Proofs
  <2>5. ASSUME NEW x \in Evidence!Axes, axes[x] # "none" PROVE axes[x] = actual'[Evidence!Origin(n, x)][x]
    <3>1. CASE x \in reported
      <4>1. Evidence!Origin(n, x) = n BY <1>6, <1>14, <2>2, <3>1, OriginIsNear DEF Evidence!Imported
      <4> QED BY <1>12, <1>17, <2>1, <2>4, <3>1, <4>1
    <3>2. CASE x \notin reported
      <4>1. reviewer.axes[x] # "none" /\ axes[x] = reviewer.axes[x] BY <1>12, <2>5, <3>2
      <4>2. axes[x] = actual[Evidence!Origin(n, x)][x] BY <1>1, <2>1, <4>1 DEF Evidence!MemoryTrue
      <4>3. Evidence!Origin(n, x) \in 1..Evidence!Last BY <2>1, OriginIsNear
      <4>4. Evidence!Origin(n, x) \in 1..MaxReviews BY <1>1, <4>3
      <4> QED BY <1>17, <2>1, <2>4, <3>2, <4>2, <4>4
    <3> QED BY <3>1, <3>2
  <2>6. ASSUME NEW x \in Evidence!Axes, Evidence!Imported(x)' PROVE axes[x] # "none"
    <3>1. Evidence!Imported(x) BY <2>2, <2>6 DEF Evidence!Imported
    <3>2. reviewer.axes[x] # "none" /\ x \notin reported BY <1>1, <1>6, <1>14, <3>1 DEF Evidence!MemoryTrue
    <3> QED BY <1>12, <3>2
  <2>7. Evidence!Current'.receipt.of # 0 /\ Evidence!Current'.receipt.status = Evidence!Current.receipt.status
    BY <1>1, <2>2 DEF Evidence!MemoryTrue
  <2>9. /\ proposal # "none" => Evidence!Complete(axes)
        /\ Evidence!Complete(axes) => proposal = Evidence!Aggregate(axes, Evidence!Current.receipt.status)
    BY <1>6, <1>11
  <2> QED
    BY <1>1, <1>18, <2>1, <2>3, <2>5, <2>6, <2>7, <2>9 DEF Evidence!MemoryTrue, Evidence!Complete, Evidence!Aggregate
<1>26. Evidence!EvidenceTypeOK' BY <1>1, <1>16, <1>17, <1>18 DEF Evidence!EvidenceTypeOK, Evidence!Last
<1> QED BY <1>20, <1>24, <1>25, <1>26

\* What an Attempt may reuse of the last one.
LEMMA ReusableIsTrue ==
  ASSUME Evidence!EvidenceInv, NEW context \in Nat, Evidence!Last # 0, NEW i \in Evidence!Reusable(Evidence!Last,
    context)
  PROVE  /\ i \in [stage : Evidence!Stages, of : Nat] /\ i.of = Evidence!Last
            /\ reviews[Evidence!Last].context = context
         /\ i.stage \in Evidence!Proofs => files[Evidence!Last][i.stage] = actual[Evidence!Last][i.stage]
            /\ actual[Evidence!Last][i.stage] \in Evidence!Verdicts
         /\ i.stage = "final" =>
              files[Evidence!Last].final \in Evidence!Verdicts
                /\ \A x \in Evidence!Axes : Evidence!Has(Evidence!Reusable(Evidence!Last, context), x)
<1> USE DEF Evidence!EvidenceInv
<1>1. Evidence!Last \in 1..MaxReviews BY ReviewsAreTyped
<1> DEFINE found == Evidence!Found(Evidence!Last, context)
<1>2. /\ i \in found
      /\ i.stage = "final" => \A x \in Evidence!Axes : Evidence!Has(found, x)
  BY DEF Evidence!Reusable
<1>3. \A j \in found : j \in [stage : Evidence!Stages, of : {Evidence!Last}] /\ Evidence!Valid(Evidence!Last, j.stage)
        /\ reviews[Evidence!Last].context = context /\ (j.stage = "final"
           => files[Evidence!Last].final \in Evidence!Verdicts)
  BY DEF Evidence!Found, Evidence!Compatible
<1>4. \A x \in Evidence!Axes : x # "preflight" /\ x # "final" BY DEF Evidence!Axes
<1>5. \A j \in found : j.stage \in Evidence!Axes => j \in Evidence!Reusable(Evidence!Last, context)
  BY <1>4 DEF Evidence!Reusable
<1> HIDE DEF found
<1>6. i.stage = "final" => \A x \in Evidence!Axes : Evidence!Has(Evidence!Reusable(Evidence!Last, context), x)
  BY <1>2, <1>5 DEF Evidence!Has
<1>7. i.stage \in Evidence!Proofs => files[Evidence!Last][i.stage] = actual[Evidence!Last][i.stage]
        /\ actual[Evidence!Last][i.stage] \in Evidence!Verdicts
  BY <1>1, <1>2, <1>3 DEF Evidence!FilesTrue
<1>8. i \in [stage : Evidence!Stages, of : Nat] /\ i.of = Evidence!Last BY <1>1, <1>2, <1>3
<1> QED BY <1>2, <1>3, <1>6, <1>7, <1>8

LEMMA PreparesKeeps ==
  ASSUME Evidence!EvidenceInv, NEW context \in 1..MaxContexts, NEW recovers \in BOOLEAN, Evidence!Prepares(context,
    recovers)
  PROVE  Evidence!EvidenceInv'
<1> USE DEF Evidence!EvidenceInv
<1> DEFINE inputs  == IF recovers THEN Evidence!Reusable(Evidence!Last, context) ELSE {}
           bound   == IF Evidence!Has(inputs, "validation") THEN [status |-> files[Evidence!Last].validation,
             of |-> Evidence!Last]
                      ELSE [status |-> "none", of |-> 0]
           new     == [context |-> context, inputs |-> inputs, phase |-> "prepared", result |-> "none",
             receipt |-> bound]
<1>1. /\ UNCHANGED <<files, reviewer, actual>> /\ reviews' = Append(reviews, new) /\ Evidence!Last < MaxReviews
      /\ (recovers => Evidence!Last > 0) /\ reviews \in Seq(Evidence!Review) /\ Len(reviews) = Evidence!Last
  BY DEF Evidence!Prepares, Evidence!EvidenceTypeOK, Evidence!Last
<1>2. Evidence!Last \in Nat /\ MaxReviews \in Nat /\ DOMAIN reviews = 1..Evidence!Last /\ context \in Nat
      /\ (Evidence!Last # 0 => Evidence!Last \in 1..Evidence!Last)
  BY ReviewsAreTyped, AgentServicesAssumption DEF Evidence!EvidenceBounds
<1>3. /\ \A i \in inputs :
          /\ Evidence!Last # 0 /\ i \in [stage : Evidence!Stages, of : Nat] /\ i.of = Evidence!Last
             /\ reviews[Evidence!Last].context = context
          /\ i.stage \in Evidence!Proofs => files[Evidence!Last][i.stage] = actual[Evidence!Last][i.stage]
             /\ actual[Evidence!Last][i.stage] \in Evidence!Verdicts
          /\ i.stage = "final" => files[Evidence!Last].final \in Evidence!Verdicts
             /\ \A x \in Evidence!Axes : Evidence!Has(inputs, x)
  <2>1. CASE recovers BY <1>1, <1>2, <2>1, ReusableIsTrue
  <2>2. CASE ~recovers BY <2>2
  <2> QED BY <2>1, <2>2
<1> HIDE DEF inputs
<1>4. /\ bound \in [status : Evidence!Verdicts \union {"none"}, of : Nat]
      /\ bound.of # 0 =>
           /\ bound.of = Evidence!Last /\ reviews[Evidence!Last].context = context
           /\ bound.status \in Evidence!Verdicts /\ bound.status = actual[Evidence!Last].validation
  <2>1. CASE Evidence!Has(inputs, "validation")
    <3>1. PICK i \in inputs : i.stage = "validation" BY <2>1 DEF Evidence!Has
    <3>2. files[Evidence!Last].validation = actual[Evidence!Last].validation
            /\ actual[Evidence!Last].validation \in Evidence!Verdicts
      BY <1>3, <3>1 DEF Evidence!Proofs
    <3>3. Evidence!Last # 0 /\ reviews[Evidence!Last].context = context BY <1>3, <3>1
    <3> QED BY <1>2, <2>1, <3>2, <3>3
  <2>2. CASE ~Evidence!Has(inputs, "validation") BY <2>2
  <2> QED BY <2>1, <2>2
<1> HIDE DEF bound
<1>5. new \in Evidence!Review /\ new.context = context /\ new.inputs = inputs /\ new.phase = "prepared"
        /\ new.result = "none"
      /\ new.receipt = bound
  <2>1. inputs \in SUBSET [stage : Evidence!Stages, of : Nat] BY <1>3
  <2> QED BY <1>2, <1>4, <2>1 DEF Evidence!Review
<1> HIDE DEF new
<1>6. /\ reviews' \in Seq(Evidence!Review) /\ Len(reviews') = Evidence!Last + 1
         /\ DOMAIN reviews' = 1..(Evidence!Last + 1)
      /\ reviews'[Evidence!Last + 1] = new /\ \A a \in 1..Evidence!Last : reviews'[a] = reviews[a]
  BY <1>1, <1>5, AppendProperties
<1>7. Evidence!Last' = Evidence!Last + 1 BY <1>6 DEF Evidence!Last
<1>8. \A a \in 1..(Evidence!Last + 1) : a # Evidence!Last + 1 => a \in 1..Evidence!Last BY <1>2
<1>9. Evidence!EvidenceTypeOK' BY <1>1, <1>2, <1>6 DEF Evidence!EvidenceTypeOK, Evidence!Last
<1>10. Evidence!FilesTrue' BY <1>1 DEF Evidence!FilesTrue, Evidence!Valid
<1>11. Evidence!ReceiptsTrue'
  <2>1. SUFFICES ASSUME NEW a \in 1..(Evidence!Last + 1), reviews'[a].receipt.of # 0
                 PROVE  /\ reviews'[a].receipt.of \in {a, a - 1}
                        /\ reviews'[reviews'[a].receipt.of].context = reviews'[a].context
                        /\ reviews'[a].receipt.status \in Evidence!Verdicts
                        /\ reviews'[a].receipt.status = actual[reviews'[a].receipt.of].validation
    BY <1>1, <1>7 DEF Evidence!ReceiptsTrue
  <2>2. CASE a = Evidence!Last + 1
    <3>1. bound.of = Evidence!Last /\ Evidence!Last # 0 BY <1>4, <1>5, <1>6, <2>1, <2>2
    <3>2. reviews'[Evidence!Last] = reviews[Evidence!Last] /\ Evidence!Last = a - 1 BY <1>2, <1>6, <2>2, <3>1
    <3> QED BY <1>4, <1>5, <1>6, <2>1, <2>2, <3>1, <3>2
  <2>3. CASE a # Evidence!Last + 1
    <3>1. a \in 1..Evidence!Last /\ reviews'[a] = reviews[a] BY <1>6, <1>8, <2>3
    <3>2. reviews[a] \in Evidence!Review BY <3>1, ReviewsAreTyped
    <3>3. reviews[a].receipt.of \in {a, a - 1} /\ reviews[a].receipt.of # 0 BY <2>1, <3>1 DEF Evidence!ReceiptsTrue
    <3>4. reviews[a].receipt.of \in 1..Evidence!Last BY <1>2, <3>1, <3>3
    <3> QED BY <1>6, <2>1, <3>1, <3>4 DEF Evidence!ReceiptsTrue
  <2> QED BY <2>2, <2>3
<1>12. Evidence!InputsTrue'
  <2>1. SUFFICES ASSUME NEW a \in 1..(Evidence!Last + 1), NEW i \in reviews'[a].inputs
                 PROVE  /\ i.of # 0 /\ i.of = a - 1 /\ reviews'[a - 1].context = reviews'[a].context
                        /\ i.stage \in Evidence!Axes => actual[a - 1][i.stage] \in Evidence!Verdicts
                        /\ i.stage = "final" =>
                             /\ files[a - 1].final \in Evidence!Verdicts \union {"spoiled"}
                             /\ \A x \in Evidence!Axes : Evidence!Has(reviews'[a].inputs, x)
    BY <1>1, <1>7 DEF Evidence!InputsTrue
  <2>2. CASE a = Evidence!Last + 1
    <3>1. i \in inputs /\ reviews'[a].context = context /\ reviews'[a].inputs = inputs BY <1>5, <1>6, <2>1, <2>2
    <3>2. a - 1 = Evidence!Last /\ Evidence!Last # 0 /\ reviews'[Evidence!Last] = reviews[Evidence!Last]
      BY <1>2, <1>3, <1>6, <2>2, <3>1
    <3>3. \A x \in Evidence!Axes : x \in Evidence!Proofs BY DEF Evidence!Proofs
    <3> QED BY <1>3, <3>1, <3>2, <3>3
  <2>3. CASE a # Evidence!Last + 1
    <3>1. a \in 1..Evidence!Last /\ reviews'[a] = reviews[a] BY <1>6, <1>8, <2>3
    <3>2. i.of # 0 /\ i.of = a - 1 BY <2>1, <3>1 DEF Evidence!InputsTrue
    <3>3. a - 1 \in 1..Evidence!Last BY <1>2, <3>1, <3>2
    <3> QED BY <1>6, <2>1, <3>1, <3>3 DEF Evidence!InputsTrue
  <2> QED BY <2>2, <2>3
<1>13. Evidence!ResultsSettled'
  <2>1. SUFFICES ASSUME NEW a \in 1..(Evidence!Last + 1), reviews'[a].result \in Evidence!Verdicts
                 PROVE  reviews'[a].phase = "settled" /\ reviews'[a].receipt.of # 0
    BY <1>7 DEF Evidence!ResultsSettled
  <2>2. a # Evidence!Last + 1 BY <1>5, <1>6, <2>1 DEF Evidence!Verdicts
  <2> QED BY <1>6, <1>8, <2>1, <2>2 DEF Evidence!ResultsSettled
<1>14. Evidence!VerdictIsEarned'
  <2>1. SUFFICES ASSUME NEW a \in 1..(Evidence!Last + 1), reviews'[a].result \in Evidence!Verdicts
                 PROVE  Evidence!EarnedBy(a, reviews[a].result)'
    BY <1>6 DEF Evidence!VerdictIsEarned
  <2>2. a # Evidence!Last + 1 BY <1>5, <1>6, <2>1 DEF Evidence!Verdicts
  <2>3. a \in 1..Evidence!Last /\ reviews'[a] = reviews[a] BY <1>6, <1>8, <2>2
  <2>4. Evidence!EarnedBy(a, reviews[a].result) /\ reviews[a].receipt.of # 0
    BY <1>2, <2>1, <2>3 DEF Evidence!VerdictIsEarned, Evidence!ResultsSettled
  <2>5. \A o \in {a, a - 1} \ {0} : o \in 1..Evidence!Last BY <1>2, <2>3
  <2> QED BY <1>1, <1>6, <2>3, <2>4, <2>5, EarnedStays
<1>15. ~Evidence!Running'
  <2>1. Evidence!Current' = new BY <1>6, <1>7 DEF Evidence!Current
  <2> QED BY <1>5, <2>1 DEF Evidence!Running, Evidence!Phase
<1>16. Evidence!MemoryTrue' BY <1>15 DEF Evidence!MemoryTrue
<1> QED BY <1>9, <1>10, <1>11, <1>12, <1>13, <1>14, <1>16

LEMMA EvidenceStepKeeps ==
  ASSUME Evidence!EvidenceInv, [Evidence!EvidenceNext]_evidenceVars
  PROVE  Evidence!EvidenceInv'
<1>1. CASE \E context \in 1..MaxContexts, recovers \in BOOLEAN : Evidence!Prepares(context, recovers)
  BY <1>1, PreparesKeeps
<1>2. CASE Evidence!StartsReviewer BY <1>2, StartsReviewerKeeps
<1>3. CASE Evidence!BlocksReviewer \/ Evidence!EndsTurn \/ Evidence!SubmitsBlocked
        \/ \E status \in Evidence!Verdicts : Evidence!Submits(status)
  BY <1>3, EndsKeep
<1>4. CASE Evidence!Overflows \/ \E axes \in Evidence!Calls : Evidence!Launches(axes) BY <1>4, LaunchesKeeps
<1>5. CASE Evidence!Preflights BY <1>5, PreflightsKeep
<1>6. CASE Evidence!AxesReport BY <1>6, AxesReportKeeps
<1>7. CASE \E verdict \in Evidence!Verdicts : Evidence!Validates(verdict) BY <1>7, ValidatesKeeps
<1>8. CASE \E a \in 1..MaxReviews, stage \in Evidence!Stages : Evidence!Spoils(a, stage) BY <1>8, SpoilsKeeps
<1>9. CASE UNCHANGED evidenceVars
  <2>1. UNCHANGED <<reviews, files, reviewer, actual>> BY <1>9 DEF evidenceVars
  <2>2. Evidence!EvidenceTypeOK /\ Evidence!MemoryTrue BY DEF Evidence!EvidenceInv
  <2>3. Evidence!EvidenceTypeOK' BY <2>1, <2>2 DEF Evidence!EvidenceTypeOK
  <2>4. Evidence!MemoryTrue'
    BY <2>1, <2>2 DEF Evidence!MemoryTrue, Evidence!Running, Evidence!Phase, Evidence!Current, Evidence!Last,
       Evidence!Origin, Evidence!Imported, Evidence!Complete
  <2>5. files' \in Evidence!Checkpoints
          /\ \A a \in 1..MaxReviews, s \in Evidence!Stages : files'[a][s] \in {files[a][s], "spoiled"}
    BY <2>1, <2>2 DEF Evidence!EvidenceTypeOK
  <2>6. (Evidence!FilesTrue /\ Evidence!ReceiptsTrue /\ Evidence!InputsTrue /\ Evidence!ResultsSettled
          /\ Evidence!VerdictIsEarned)'
    BY <2>1, <2>5, FilesKeep
  <2> QED BY <2>3, <2>4, <2>6 DEF Evidence!EvidenceInv
<1> QED BY <1>1, <1>2, <1>3, <1>4, <1>5, <1>6, <1>7, <1>8, <1>9 DEF Evidence!EvidenceNext

LEMMA EvidenceInvSuffices == Evidence!EvidenceInv => Evidence!VerdictIsEarned /\ Evidence!ProposalMatches
<1> QED BY DEF Evidence!EvidenceInv, Evidence!ProposalMatches, Evidence!MemoryTrue

-----------------------------------------------------------------------------
(* pi-rpc-compaction-compat.ts.                                             *)

LEMMA CompactionInitially == Compactor!CompactionInit => Compactor!CompactionInv
<1> SUFFICES ASSUME Compactor!CompactionInit PROVE Compactor!CompactionInv OBVIOUS
<1> USE DEF Compactor!CompactionInit
<1>1. worker \in Compactor!Worker BY DEF Compactor!Worker
<1>2. auditor \in Compactor!Auditor BY DEF Compactor!Auditor, Compactor!NoReceipt
<1>3. turns \in 0..MaxTurns BY AgentServicesAssumption DEF Compactor!CompactionBounds
<1>4. Len(pipe) = 0 /\ pipe \in Seq(Compactor!Event) OBVIOUS
<1>5. Compactor!CompactorSteps /\ Compactor!SettledIsLast /\ Compactor!EndIsTold
  BY <1>4 DEF Compactor!CompactorSteps, Compactor!SettledIsLast, Compactor!EndIsTold, Compactor!Stage,
     Compactor!Working, Compactor!Provider
<1>6. Compactor!PipeAgrees /\ Compactor!AuditAgrees
  BY <1>4 DEF Compactor!PipeAgrees, Compactor!AuditAgrees, Compactor!Working, Compactor!First, Compactor!Stage
<1> QED BY <1>1, <1>2, <1>3, <1>4, <1>5, <1>6 DEF Compactor!CompactionInv, Compactor!CompactionTypeOK

LEMMA NextTurnKeeps ==
  ASSUME Compactor!CompactionInv, Compactor!NextTurn
  PROVE  Compactor!CompactionInv'
<1> USE DEF Compactor!CompactionInv, Compactor!CompactionTypeOK, Compactor!Stage
<1>1. UNCHANGED <<pipe, auditor, aborted>> /\ worker.step = "idle" BY DEF Compactor!NextTurn, Compactor!ByCompactor
<1>2. turns' \in 0..MaxTurns BY AgentServicesAssumption DEF Compactor!NextTurn, Compactor!CompactionBounds
<1>3. PICK large \in BOOLEAN :
        worker' = IF Compactor!Due(large) THEN [worker EXCEPT !.step = "prepare", !.count = @ + 1, !.attempts = 0]
          ELSE worker
  BY DEF Compactor!NextTurn
<1>4. CASE Compactor!Due(large)
  <2>1. worker.count = 0
    BY <1>4, AgentServicesAssumption DEF Compactor!Due, Compactor!CompactionBounds, Compactor!Worker
  <2>2. worker.count + 1 = 1 BY <2>1
  <2>3. worker' = [worker EXCEPT !.step = "prepare", !.count = 1, !.attempts = 0] BY <1>3, <1>4, <2>2
  <2>4. worker' \in Compactor!Worker /\ worker'.step = "prepare" /\ worker'.count = 1 /\ worker'.attempts = 0
          /\ worker'.sent = worker.sent
        /\ worker'.replaced = worker.replaced /\ worker'.foreign = worker.foreign
    BY <2>3 DEF Compactor!Worker
  <2>5. worker.sent = "none" /\ ~worker.replaced BY <2>1 DEF Compactor!CompactorSteps
  <2>6. Compactor!CompactorSteps' BY <2>4, <2>5 DEF Compactor!CompactorSteps, Compactor!Working, Compactor!Provider
  <2>7. (Compactor!SettledIsLast /\ Compactor!EndIsTold)'
    BY <1>1, <2>4, <2>5 DEF Compactor!SettledIsLast, Compactor!EndIsTold
  <2>8. ~worker.foreign => auditor.phase = "idle" /\ Len(pipe) = 0 /\ auditor.receipt = Compactor!NoReceipt
          /\ ~auditor.violation
    BY <1>1, <2>1, <2>5 DEF Compactor!PipeAgrees, Compactor!AuditAgrees, Compactor!Codes
  <2>9. ~worker'.foreign => (Compactor!PipeAgrees /\ Compactor!AuditAgrees)'
    BY <1>1, <2>4, <2>8
       DEF Compactor!PipeAgrees, Compactor!AuditAgrees, Compactor!First, Compactor!Working, Compactor!NoReceipt
  <2> QED BY <1>1, <1>2, <2>4, <2>6, <2>7, <2>9
<1>5. CASE ~Compactor!Due(large)
  BY <1>1, <1>2, <1>3, <1>5 DEF Compactor!CompactorSteps, Compactor!SettledIsLast, Compactor!EndIsTold,
     Compactor!EndWaits, Compactor!PipeAgrees, Compactor!AuditAgrees, Compactor!First, Compactor!Working
<1> QED BY <1>4, <1>5

LEMMA PipeGrows ==
  ASSUME Compactor!CompactionTypeOK, NEW e \in Compactor!Event, pipe' = Append(pipe, e)
  PROVE  /\ pipe' \in Seq(Compactor!Event) /\ Len(pipe') = Len(pipe) + 1 /\ Len(pipe) \in Nat
         /\ \A i \in 1..Len(pipe) : pipe'[i] = pipe[i]
         /\ pipe'[Len(pipe) + 1] = e
<1>1. pipe \in Seq(Compactor!Event) BY DEF Compactor!CompactionTypeOK
<1> QED BY <1>1, AppendProperties

\* Another report: nothing that waits is lost, and nothing is settled yet.
LEMMA ReportsKeep ==
  ASSUME Compactor!CompactionInv, NEW e \in Compactor!Event, pipe' = Append(pipe, e), e.type # "settled",
         auditor' = auditor, ~Compactor!Stage("settled")
  PROVE  Compactor!SettledIsLast' /\ (Compactor!EndWaits => Compactor!EndWaits') /\ (e.type = "end"
    => Compactor!EndWaits')
<1>1. Compactor!CompactionTypeOK /\ Compactor!SettledIsLast BY DEF Compactor!CompactionInv
<1>2. \A i \in 1..Len(pipe') : pipe'[i].type # "settled" BY <1>1, PipeGrows DEF Compactor!SettledIsLast
<1>3. ~auditor.settled BY <1>1 DEF Compactor!SettledIsLast
<1>4. Compactor!SettledIsLast' BY <1>2, <1>3 DEF Compactor!SettledIsLast
<1>5. Compactor!EndWaits => Compactor!EndWaits' BY <1>1, PipeGrows DEF Compactor!EndWaits
<1>6. e.type = "end" => Compactor!EndWaits' BY <1>1, PipeGrows DEF Compactor!EndWaits
<1> QED BY <1>4, <1>5, <1>6

LEMMA EndsAreEvents ==
  ASSUME NEW n \in {0, 1, 2}, NEW o \in Compactor!Outcomes
  PROVE  Compactor!Ended(1, n, o) \in Compactor!Event
  BY DEF Compactor!Ended, Compactor!Event

\* The one end of a compaction: it is on its way, of the outcome the compactor records.
LEMMA EndKeeps ==
  ASSUME Compactor!CompactionInv, Compactor!Working, NEW o \in Compactor!Outcomes,
         worker' \in Compactor!Worker, worker'.count = worker.count, worker'.attempts \in {1, 2}, worker'.sent = o,
         worker'.foreign = worker.foreign, worker'.step = (IF o = "completed" THEN "idle" ELSE "thrown"),
         pipe' = Append(pipe, Compactor!Ended(worker.count, worker'.attempts, o)), UNCHANGED <<turns, auditor,
           aborted>>
  PROVE  Compactor!CompactionInv'
<1> USE DEF Compactor!CompactionInv
<1>1. worker.count = 1 /\ worker.sent = "none" /\ ~Compactor!Stage("settled")
  BY DEF Compactor!CompactorSteps, Compactor!Working, Compactor!Stage
<1> DEFINE e == Compactor!Ended(1, worker'.attempts, o)
<1>2. e \in Compactor!Event /\ e.type = "end" /\ e.by = "harness" /\ e.count = 1 /\ e.large /\ e.outcome = o
        /\ e.attempts = worker'.attempts
  BY EndsAreEvents DEF Compactor!Ended
<1>3. pipe' = Append(pipe, e) BY <1>1
<1> HIDE DEF e
<1>4. Compactor!CompactionTypeOK' BY <1>2, <1>3, PipeGrows DEF Compactor!CompactionTypeOK
<1>5. Compactor!CompactorSteps'
  BY <1>1 DEF Compactor!CompactorSteps, Compactor!Working, Compactor!Stage, Compactor!Outcomes, Compactor!Codes
<1>6. Compactor!SettledIsLast' /\ Compactor!EndIsTold' BY <1>1, <1>2, <1>3, ReportsKeep DEF Compactor!EndIsTold
<1>7. ASSUME ~worker'.foreign PROVE (Compactor!PipeAgrees /\ Compactor!AuditAgrees)'
  <2>1. auditor.receipt = Compactor!NoReceipt /\ ~auditor.violation
    BY <1>1, <1>7 DEF Compactor!AuditAgrees, Compactor!Codes
  <2>2. Compactor!AuditAgrees' BY <2>1 DEF Compactor!AuditAgrees, Compactor!NoReceipt
  <2>3. Len(pipe) \in {0, 1} /\ (Len(pipe) = 1 => Compactor!First("start") /\ auditor.phase = "idle")
          /\ (Len(pipe) = 0 => auditor.phase = "started")
    <3>1. Compactor!PipeAgrees BY <1>7
    <3>2. (auditor.phase = "idle" /\ Len(pipe) = 1 /\ pipe[1].type = "start") \/ (auditor.phase = "started"
            /\ Len(pipe) = 0)
      BY <3>1 DEF Compactor!PipeAgrees, Compactor!First
    <3>3. CASE auditor.phase = "idle" /\ Len(pipe) = 1 /\ pipe[1].type = "start" BY <3>3 DEF Compactor!First
    <3>4. CASE auditor.phase = "started" /\ Len(pipe) = 0 BY <3>4
    <3> QED BY <3>2, <3>3, <3>4
  <2>4. /\ Len(pipe') = Len(pipe) + 1
        /\ \A i \in 1..Len(pipe) : pipe'[i] = pipe[i]
        /\ pipe'[Len(pipe) + 1] = e
    BY <1>2, <1>3, PipeGrows
  <2>5. ~Compactor!Working' /\ ~Compactor!Stage("prepare")' /\ worker'.count = 1 /\ worker'.sent # "none"
    BY <1>1 DEF Compactor!Working, Compactor!Stage, Compactor!Outcomes, Compactor!Codes
  <2>6. CASE Len(pipe) = 0
    <3>1. Len(pipe') = 1 /\ pipe'[1] = e BY <2>4, <2>6
    <3> QED BY <1>2, <2>2, <2>3, <2>5, <2>6, <3>1 DEF Compactor!PipeAgrees, Compactor!First, Compactor!Stage
  <2>7. CASE Len(pipe) = 1
    <3>1. Len(pipe') = 2 /\ pipe'[1] = pipe[1] /\ pipe'[2] = e BY <2>4, <2>7
    <3>2. pipe[1].type = "start" /\ pipe[1].by = "harness" /\ pipe[1].count = 1 /\ pipe[1].large
            /\ pipe[1].attempts \in {0, 1}
      BY <1>7, <2>3, <2>7 DEF Compactor!PipeAgrees, Compactor!First
    <3> QED BY <1>2, <2>2, <2>3, <2>5, <2>7, <3>1, <3>2 DEF Compactor!PipeAgrees, Compactor!First, Compactor!Stage
  <2> QED BY <2>3, <2>6, <2>7
<1> QED BY <1>4, <1>5, <1>6, <1>7

LEMMA RequestKeeps ==
  ASSUME Compactor!CompactionInv, Compactor!RequestsSummary
  PROVE  Compactor!CompactionInv'
<1> USE DEF Compactor!CompactionInv
<1>1. worker.step = "request" /\ worker \in Compactor!Worker /\ worker.attempts \in {0, 1}
        /\ UNCHANGED <<turns, auditor, aborted>>
  BY DEF Compactor!RequestsSummary, Compactor!Stage, Compactor!ByCompactor, Compactor!CompactorSteps,
     Compactor!CompactionTypeOK
<1>2. worker.attempts + 1 \in {1, 2} /\ (worker.attempts + 1 = 1 => worker.attempts + 1 \in {0, 1}) BY <1>1
<1>3. ASSUME NEW step \in {"request", "apply"}, step = "request" => worker.attempts + 1 \in {0, 1},
             worker' = [worker EXCEPT !.step = step, !.attempts = worker.attempts + 1], UNCHANGED pipe
      PROVE  Compactor!CompactionInv'
  <2>1. worker' \in Compactor!Worker BY <1>1, <1>2, <1>3 DEF Compactor!Worker
  <2>2. /\ worker'.step = step /\ worker'.attempts = worker.attempts + 1 /\ worker'.count = worker.count
        /\ worker'.replaced = worker.replaced /\ worker'.sent = worker.sent /\ worker'.foreign = worker.foreign
    BY <1>1, <1>3 DEF Compactor!Worker
  <2>3. Compactor!CompactionTypeOK' BY <1>1, <1>3, <2>1 DEF Compactor!CompactionTypeOK
  <2>4. worker.sent = "none" /\ worker.count = 1 BY <1>1 DEF Compactor!CompactorSteps, Compactor!Working
  <2>5. Compactor!CompactorSteps'
    BY <1>1, <1>2, <1>3, <2>2, <2>4
       DEF Compactor!CompactorSteps, Compactor!Working, Compactor!Stage, Compactor!Provider
  <2>6. Compactor!SettledIsLast' /\ Compactor!EndIsTold'
    BY <1>1, <1>3, <2>2 DEF Compactor!SettledIsLast, Compactor!EndIsTold, Compactor!EndWaits, Compactor!Stage
  <2>7. ASSUME ~worker'.foreign PROVE (Compactor!PipeAgrees /\ Compactor!AuditAgrees)'
    <3>1. Compactor!PipeAgrees /\ Compactor!AuditAgrees BY <2>2, <2>7
    <3>2. Compactor!PipeAgrees'
      <4>1. \A i \in 1..Len(pipe) : pipe[i].type # "end" BY <2>4, <3>1 DEF Compactor!PipeAgrees
      <4> QED
        BY <1>1, <1>3, <2>2, <3>1, <4>1 DEF Compactor!PipeAgrees, Compactor!Working, Compactor!First, Compactor!Stage
    <3>3. Compactor!AuditAgrees' BY <1>1, <2>2, <2>4, <3>1 DEF Compactor!AuditAgrees, Compactor!Codes
    <3> QED BY <3>2, <3>3
  <2> QED BY <2>3, <2>5, <2>6, <2>7
<1>4. ASSUME NEW failure \in {"permanent", "transient"},
             worker' = [worker EXCEPT !.step = "thrown", !.attempts = worker.attempts + 1, !.sent = failure],
             pipe' = Append(pipe, Compactor!Ended(worker.count, worker.attempts + 1, failure))
      PROVE  Compactor!CompactionInv'
  <2>1. failure \in Compactor!Outcomes /\ failure # "completed" BY DEF Compactor!Outcomes, Compactor!Codes
  <2>2. worker' \in Compactor!Worker BY <1>1, <1>2, <1>4, <2>1 DEF Compactor!Worker
  <2>3. /\ worker'.step = "thrown" /\ worker'.attempts = worker.attempts + 1 /\ worker'.count = worker.count
        /\ worker'.sent = failure /\ worker'.foreign = worker.foreign
    BY <1>1, <1>4 DEF Compactor!Worker
  <2> QED BY <1>1, <1>2, <1>4, <2>1, <2>2, <2>3, EndKeeps DEF Compactor!Working
<1>5. CASE worker' = [worker EXCEPT !.step = "apply", !.attempts = Compactor!Asked] /\ UNCHANGED pipe
  BY <1>3, <1>5 DEF Compactor!Asked
<1>6. CASE \E failure \in {"permanent"} \union {t \in {"transient"} : ~aborted} :
             IF Compactor!MayAskAgain(failure)
              THEN worker' = [worker EXCEPT !.attempts = Compactor!Asked] /\ UNCHANGED pipe
              ELSE /\ worker' = [worker EXCEPT !.step = "thrown", !.attempts = Compactor!Asked, !.sent = failure]
                   /\ pipe' = Append(pipe, Compactor!Ended(worker.count, Compactor!Asked, failure))
  <2>1. PICK failure \in {"permanent", "transient"} :
             IF Compactor!MayAskAgain(failure)
              THEN worker' = [worker EXCEPT !.attempts = Compactor!Asked] /\ UNCHANGED pipe
              ELSE /\ worker' = [worker EXCEPT !.step = "thrown", !.attempts = Compactor!Asked, !.sent = failure]
                   /\ pipe' = Append(pipe, Compactor!Ended(worker.count, Compactor!Asked, failure))
    BY <1>6
  <2>2. CASE Compactor!MayAskAgain(failure)
    <3>1. worker' = [worker EXCEPT !.step = "request", !.attempts = worker.attempts + 1]
      BY <1>1, <2>1, <2>2 DEF Compactor!Asked, Compactor!Worker
    <3> QED BY <1>2, <1>3, <2>1, <2>2, <3>1 DEF Compactor!MayAskAgain, Compactor!Asked
  <2>3. CASE ~Compactor!MayAskAgain(failure) BY <1>4, <2>1, <2>3 DEF Compactor!Asked
  <2> QED BY <2>2, <2>3
<1> QED BY <1>5, <1>6 DEF Compactor!RequestsSummary

LEMMA ApplyKeeps ==
  ASSUME Compactor!CompactionInv, Compactor!AppliesSummary
  PROVE  Compactor!CompactionInv'
<1>1. worker.step = "apply" /\ worker \in Compactor!Worker /\ worker.attempts \in {1, 2}
        /\ UNCHANGED <<turns, auditor, aborted>>
  BY DEF Compactor!AppliesSummary, Compactor!Stage, Compactor!ByCompactor, Compactor!CompactorSteps,
     Compactor!CompactionInv, Compactor!CompactionTypeOK
<1>2. PICK o \in {"completed", "protocol", "drift"}, replaced \in BOOLEAN :
        /\ worker' = [worker EXCEPT !.step = IF o = "completed" THEN "idle"
           ELSE "thrown", !.replaced = replaced, !.sent = o]
        /\ pipe' = Append(pipe, Compactor!Ended(worker.count, worker.attempts, o))
  BY DEF Compactor!AppliesSummary
<1>3. o \in Compactor!Outcomes BY DEF Compactor!Outcomes, Compactor!Codes
<1>4. worker' \in Compactor!Worker BY <1>1, <1>2, <1>3 DEF Compactor!Worker
<1>5. /\ worker'.step = (IF o = "completed" THEN "idle" ELSE "thrown") /\ worker'.attempts = worker.attempts
      /\ worker'.count = worker.count /\ worker'.sent = o /\ worker'.foreign = worker.foreign
  BY <1>1, <1>2 DEF Compactor!Worker
<1> QED BY <1>1, <1>2, <1>3, <1>4, <1>5, EndKeeps DEF Compactor!Working

LEMMA SettleKeeps ==
  ASSUME Compactor!CompactionInv, Compactor!AgentSettled
  PROVE  Compactor!CompactionInv'
<1> USE DEF Compactor!CompactionInv
<1>1. worker.step \in {"idle", "thrown"} /\ worker \in Compactor!Worker /\ UNCHANGED <<turns, auditor, aborted>>
  BY DEF Compactor!AgentSettled, Compactor!ByCompactor, Compactor!CompactionTypeOK
<1>2. worker' = [worker EXCEPT !.step = "settled"] /\ pipe' = Append(pipe, Compactor!Settled)
  BY DEF Compactor!AgentSettled
<1>3. worker' \in Compactor!Worker /\ worker'.step = "settled" /\ worker'.count = worker.count
        /\ worker'.attempts = worker.attempts
      /\ worker'.sent = worker.sent /\ worker'.replaced = worker.replaced /\ worker'.foreign = worker.foreign
  BY <1>1, <1>2 DEF Compactor!Worker
<1>4. Compactor!Settled \in Compactor!Event /\ Compactor!Settled.type = "settled"
  BY DEF Compactor!Settled, Compactor!Started, Compactor!Event
<1>5. /\ pipe' \in Seq(Compactor!Event) /\ Len(pipe') = Len(pipe) + 1 /\ Len(pipe) \in Nat
      /\ \A i \in 1..Len(pipe) : pipe'[i] = pipe[i]
      /\ pipe'[Len(pipe) + 1] = Compactor!Settled
  BY <1>2, <1>4, PipeGrows
<1>6. Compactor!CompactionTypeOK' BY <1>1, <1>3, <1>5 DEF Compactor!CompactionTypeOK
<1>7. Compactor!CompactorSteps'
  BY <1>1, <1>3 DEF Compactor!CompactorSteps, Compactor!Working, Compactor!Stage, Compactor!Worker
<1>8. ~auditor.settled /\ \A i \in 1..Len(pipe) : pipe[i].type # "settled"
  BY <1>1 DEF Compactor!SettledIsLast, Compactor!Stage
<1>9. Compactor!SettledIsLast' BY <1>1, <1>3, <1>5, <1>8 DEF Compactor!SettledIsLast, Compactor!Stage
<1>10. Compactor!EndIsTold' BY <1>1, <1>3, <1>5 DEF Compactor!EndIsTold, Compactor!EndWaits
<1>11. ASSUME ~worker'.foreign PROVE (Compactor!PipeAgrees /\ Compactor!AuditAgrees)'
  <2>1. Compactor!PipeAgrees /\ Compactor!AuditAgrees BY <1>3, <1>11
  <2>2. Compactor!AuditAgrees' BY <1>1, <1>3, <2>1 DEF Compactor!AuditAgrees
  <2>3. ~Compactor!Working /\ ~Compactor!Working' /\ ~Compactor!Stage("prepare")' /\ ~Compactor!Stage("idle")'
    BY <1>1, <1>3 DEF Compactor!Working, Compactor!Stage
  <2>4. Compactor!PipeAgrees'
    <3>1. \A type \in {"start", "end"} : Compactor!First(type) => Compactor!First(type)' BY <1>5 DEF Compactor!First
    <3> QED BY <1>1, <1>3, <1>4, <1>5, <1>8, <2>1, <2>3, <3>1 DEF Compactor!PipeAgrees, Compactor!First
  <2> QED BY <2>2, <2>4
<1> QED BY <1>6, <1>7, <1>9, <1>10, <1>11

LEMMA CompactorPreparesKeeps ==
  ASSUME Compactor!CompactionInv, Compactor!Prepares
  PROVE  Compactor!CompactionInv'
<1> USE DEF Compactor!CompactionInv
<1>1. worker.step = "prepare" /\ worker \in Compactor!Worker /\ UNCHANGED <<turns, auditor, aborted>>
  BY DEF Compactor!Prepares, Compactor!Stage, Compactor!ByCompactor, Compactor!CompactionTypeOK
<1>2. worker.count = 1 /\ worker.sent = "none" /\ ~worker.replaced
  BY <1>1 DEF Compactor!CompactorSteps, Compactor!Stage
<1>3. ~worker.foreign => auditor.phase = "idle" /\ Len(pipe) = 0 /\ auditor.receipt = Compactor!NoReceipt
        /\ ~auditor.violation
  BY <1>1, <1>2 DEF Compactor!PipeAgrees, Compactor!AuditAgrees, Compactor!Stage, Compactor!Codes
<1>4. CASE worker' = [worker EXCEPT !.step = "request"]
        /\ pipe' = Append(pipe, Compactor!Started("harness", worker.count, 1, TRUE))
  <2> DEFINE e == Compactor!Started("harness", 1, 1, TRUE)
  <2>1. e \in Compactor!Event /\ e.type = "start" /\ e.by = "harness" /\ e.count = 1 /\ e.large /\ e.attempts = 1
    BY DEF Compactor!Started, Compactor!Event
  <2>2. pipe' = Append(pipe, e) BY <1>2, <1>4
  <2> HIDE DEF e
  <2>3. worker' \in Compactor!Worker /\ worker'.step = "request" /\ worker'.count = 1
          /\ worker'.attempts = worker.attempts
        /\ worker'.sent = "none" /\ ~worker'.replaced /\ worker'.foreign = worker.foreign
    BY <1>1, <1>2, <1>4 DEF Compactor!Worker
  <2>4. Compactor!CompactionTypeOK' BY <1>1, <2>1, <2>2, <2>3, PipeGrows DEF Compactor!CompactionTypeOK
  <2>5. worker.attempts = 0 BY <1>1 DEF Compactor!CompactorSteps, Compactor!Stage
  <2>6. Compactor!CompactorSteps'
    BY <2>3, <2>5 DEF Compactor!CompactorSteps, Compactor!Working, Compactor!Stage, Compactor!Provider
  <2>7. Compactor!SettledIsLast' /\ Compactor!EndIsTold'
    BY <1>1, <2>1, <2>2, <2>3, ReportsKeep DEF Compactor!EndIsTold, Compactor!Stage
  <2>8. ASSUME ~worker'.foreign PROVE (Compactor!PipeAgrees /\ Compactor!AuditAgrees)'
    <3>1. Len(pipe') = 1 /\ pipe'[1] = e BY <1>3, <2>1, <2>2, <2>3, <2>8, PipeGrows
    <3>2. Compactor!AuditAgrees' BY <1>1, <1>3, <2>3, <2>8 DEF Compactor!AuditAgrees, Compactor!NoReceipt
    <3> QED
      BY <1>1, <1>3, <2>1, <2>3, <2>8, <3>1, <3>2
         DEF Compactor!PipeAgrees, Compactor!First, Compactor!Working, Compactor!Stage
  <2> QED BY <2>4, <2>6, <2>7, <2>8
<1>5. ASSUME NEW code \in {"context_invalid", "protocol"},
             Compactor!Throws(code, <<Compactor!Started("harness", worker.count, 0, TRUE),
               Compactor!Ended(worker.count, 0, code)>>)
      PROVE  Compactor!CompactionInv'
  <2> DEFINE s == Compactor!Started("harness", 1, 0, TRUE)
             e == Compactor!Ended(1, 0, code)
  <2>1. s \in Compactor!Event /\ s.type = "start" /\ s.by = "harness" /\ s.count = 1 /\ s.large /\ s.attempts = 0
    BY DEF Compactor!Started, Compactor!Event
  <2>2. e \in Compactor!Event /\ e.type = "end" /\ e.by = "harness" /\ e.count = 1 /\ e.large /\ e.attempts = 0
          /\ e.outcome = code
    BY DEF Compactor!Ended, Compactor!Event, Compactor!Outcomes, Compactor!Codes
  <2>3. pipe' = pipe \o <<s, e>> BY <1>2, <1>5 DEF Compactor!Throws
  <2> HIDE DEF s, e
  <2>4. /\ pipe' \in Seq(Compactor!Event) /\ Len(pipe') = Len(pipe) + 2 /\ Len(pipe) \in Nat
        /\ \A i \in 1..Len(pipe) : pipe'[i] = pipe[i]
        /\ pipe'[Len(pipe) + 1] = s /\ pipe'[Len(pipe) + 2] = e
    <3>1. pipe \in Seq(Compactor!Event) /\ <<s, e>> \in Seq(Compactor!Event) /\ Len(<<s, e>>) = 2 /\ <<s, e>>[1] = s
            /\ <<s, e>>[2] = e
      BY <2>1, <2>2 DEF Compactor!CompactionTypeOK
    <3> QED BY <2>3, <3>1, ConcatProperties
  <2>5. worker' \in Compactor!Worker /\ worker'.step = "thrown" /\ worker'.count = 1
          /\ worker'.attempts = worker.attempts
        /\ worker'.sent = code /\ ~worker'.replaced /\ worker'.foreign = worker.foreign
    BY <1>1, <1>2, <1>5 DEF Compactor!Worker, Compactor!Throws, Compactor!Outcomes, Compactor!Codes
  <2>6. worker.attempts = 0 BY <1>1 DEF Compactor!CompactorSteps, Compactor!Stage
  <2>7. Compactor!CompactionTypeOK' BY <1>1, <2>4, <2>5 DEF Compactor!CompactionTypeOK
  <2>8. Compactor!CompactorSteps'
    BY <2>5, <2>6
       DEF Compactor!CompactorSteps, Compactor!Working, Compactor!Stage, Compactor!Provider, Compactor!Codes
  <2>9. Compactor!SettledIsLast'
    <3>1. ~auditor.settled /\ \A i \in 1..Len(pipe) : pipe[i].type # "settled"
      BY <1>1 DEF Compactor!SettledIsLast, Compactor!Stage
    <3>2. \A i \in 1..Len(pipe') : pipe'[i].type # "settled" BY <2>1, <2>2, <2>4, <3>1
    <3> QED BY <1>1, <3>1, <3>2 DEF Compactor!SettledIsLast
  <2>10. Compactor!EndIsTold' BY <2>5 DEF Compactor!EndIsTold
  <2>11. ASSUME ~worker'.foreign PROVE (Compactor!PipeAgrees /\ Compactor!AuditAgrees)'
    <3>1. Len(pipe') = 2 /\ pipe'[1] = s /\ pipe'[2] = e BY <1>3, <2>4, <2>5, <2>11
    <3>2. Compactor!AuditAgrees' BY <1>1, <1>3, <2>5, <2>11 DEF Compactor!AuditAgrees, Compactor!NoReceipt
    <3> QED
      BY <1>1, <1>3, <2>1, <2>2, <2>5, <2>6, <2>11, <3>1, <3>2
         DEF Compactor!PipeAgrees, Compactor!First, Compactor!Working, Compactor!Stage
  <2> QED BY <2>7, <2>8, <2>9, <2>10, <2>11
<1> QED BY <1>4, <1>5 DEF Compactor!Prepares

\* A compaction of Pi's own is blamed when the runner hears of it; until then no end is lost.
LEMMA ForeignKeeps ==
  ASSUME Compactor!CompactionInv, Compactor!CompactsByItself
  PROVE  Compactor!CompactionInv'
<1> USE DEF Compactor!CompactionInv
<1>1. worker.step = "idle" /\ worker \in Compactor!Worker /\ UNCHANGED <<turns, auditor, aborted>>
      /\ worker' = [worker EXCEPT !.foreign = TRUE]
  BY DEF Compactor!CompactsByItself, Compactor!Stage, Compactor!ByCompactor, Compactor!CompactionTypeOK
<1>2. PICK large \in BOOLEAN : pipe' = Append(pipe, Compactor!Started("pi", 1, 1, large))
  BY DEF Compactor!CompactsByItself
<1>3. Compactor!Started("pi", 1, 1, large) \in Compactor!Event /\ Compactor!Started("pi", 1, 1, large).type = "start"
  BY DEF Compactor!Started, Compactor!Event
<1>4. worker' \in Compactor!Worker /\ worker'.foreign /\ worker'.step = worker.step /\ worker'.count = worker.count
      /\ worker'.attempts = worker.attempts /\ worker'.sent = worker.sent /\ worker'.replaced = worker.replaced
  BY <1>1 DEF Compactor!Worker
<1>5. Compactor!CompactionTypeOK' BY <1>1, <1>2, <1>3, <1>4, PipeGrows DEF Compactor!CompactionTypeOK
<1>6. Compactor!CompactorSteps' BY <1>4 DEF Compactor!CompactorSteps, Compactor!Working, Compactor!Stage
<1>7. Compactor!SettledIsLast' /\ Compactor!EndIsTold'
  BY <1>1, <1>2, <1>3, <1>4, ReportsKeep DEF Compactor!EndIsTold, Compactor!Stage
<1> QED BY <1>4, <1>5, <1>6, <1>7

\* An end that is heard is recorded as completed or blamed, and stays so.
LEMMA AcceptsOrBlames ==
  ASSUME NEW a \in Compactor!Auditor, NEW e \in Compactor!Event, e.type # "settled"
  PROVE  /\ Compactor!AcceptsEvent(a, e) \in Compactor!Auditor
         /\ Compactor!AcceptsEvent(a, e).settled = a.settled
         /\ e.type = "end" \/ a.receipt.outcome = "completed" \/ a.violation =>
              Compactor!AcceptsEvent(a, e).receipt.outcome = "completed" \/ Compactor!AcceptsEvent(a, e).violation
<1> DEFINE b == Compactor!AcceptsEvent(a, e)
           r == [outcome |-> e.outcome, attempts |-> e.attempts]
<1>1. r \in [outcome : Compactor!Outcomes \union {"none"}, attempts : {0, 1, 2}] /\ r.outcome = e.outcome
  BY DEF Compactor!Event
<1>2. Compactor!Protocol(a) \in Compactor!Auditor /\ Compactor!Protocol(a).violation
        /\ Compactor!Protocol(a).settled = a.settled
  BY DEF Compactor!Protocol, Compactor!Auditor, Compactor!Codes
<1>3. CASE b = Compactor!Protocol(a) BY <1>2, <1>3
<1>4. CASE e.type = "start" /\ b = [a EXCEPT !.phase = "started"] BY <1>4 DEF Compactor!Auditor
<1>5. CASE b = [a EXCEPT !.phase = "completed", !.receipt = r,
                         !.failure = IF e.outcome = "completed" THEN @ ELSE e.outcome,
                         !.violation = @ \/ e.outcome # "completed"] /\ e.type = "end"
  <2>1. e.outcome \in Compactor!Codes \union {"completed"} BY <1>5 DEF Compactor!Event, Compactor!Outcomes
  <2>2. b \in Compactor!Auditor BY <1>1, <1>5, <2>1 DEF Compactor!Auditor
  <2>3. b.settled = a.settled /\ b.receipt = r /\ (e.outcome # "completed" => b.violation)
    BY <1>5 DEF Compactor!Auditor
  <2> QED BY <1>1, <2>2, <2>3
<1> QED BY <1>3, <1>4, <1>5 DEF Compactor!AcceptsEvent, Compactor!Event

LEMMA HearsKeeps ==
  ASSUME Compactor!CompactionInv, Compactor!RunnerHears
  PROVE  Compactor!CompactionInv'
<1> USE DEF Compactor!CompactionInv
<1> DEFINE e == pipe[1]
<1>1. pipe # <<>> /\ pipe \in Seq(Compactor!Event) /\ UNCHANGED <<turns, worker, aborted>>
        /\ auditor \in Compactor!Auditor /\ worker \in Compactor!Worker
  BY DEF Compactor!RunnerHears, Compactor!CompactionTypeOK
<1>2. /\ pipe' \in Seq(Compactor!Event) /\ Len(pipe') = Len(pipe) - 1 /\ Len(pipe) \in Nat \ {0}
      /\ \A i \in 1..Len(pipe') : pipe'[i] = pipe[i + 1]
  BY <1>1, HeadTailProperties DEF Compactor!RunnerHears
<1>3. e \in Compactor!Event /\ auditor' = (IF e.type = "settled" THEN Compactor!SettlesWell(auditor)
        ELSE Compactor!AcceptsEvent(auditor, e))
  BY <1>1, <1>2 DEF Compactor!RunnerHears
<1>4. e = pipe[1] OBVIOUS
<1> HIDE DEF e
<1>5. Compactor!CompactorSteps' BY <1>1 DEF Compactor!CompactorSteps, Compactor!Working, Compactor!Stage
<1>6. \A i \in 1..Len(pipe') : i + 1 \in 1..Len(pipe) /\ pipe'[i] = pipe[i + 1] BY <1>2
<1>7. ~auditor.settled BY <1>2 DEF Compactor!SettledIsLast
<1>8. CASE e.type = "settled"
  <2>1. Len(pipe) = 1 /\ worker.step = "settled" /\ Len(pipe') = 0
    BY <1>2, <1>4, <1>8 DEF Compactor!SettledIsLast, Compactor!Stage
  <2>2. auditor' = Compactor!SettlesWell(auditor) BY <1>3, <1>8
  <2>3. /\ auditor' \in Compactor!Auditor /\ auditor'.receipt = auditor.receipt
        /\ (auditor.violation => auditor'.violation) /\ auditor'.phase = auditor.phase
        /\ (auditor.phase # "started" => auditor'.violation = auditor.violation /\ auditor'.failure = auditor.failure)
    BY <1>1, <2>2 DEF Compactor!SettlesWell, Compactor!Auditor, Compactor!Codes
  <2>4. Compactor!SettledIsLast' BY <1>1, <2>1 DEF Compactor!SettledIsLast, Compactor!Stage
  <2>5. Compactor!EndIsTold'
    <3>1. ~Compactor!EndWaits BY <1>4, <1>8, <2>1 DEF Compactor!EndWaits
    <3> QED BY <1>1, <2>3, <3>1 DEF Compactor!EndIsTold
  <2>6. ASSUME ~worker'.foreign PROVE (Compactor!PipeAgrees /\ Compactor!AuditAgrees)'
    <3>1. Compactor!PipeAgrees /\ Compactor!AuditAgrees /\ ~Compactor!Working
      BY <1>1, <2>1, <2>6 DEF Compactor!Working
    <3>2. auditor.phase # "started" BY <1>4, <1>8, <3>1 DEF Compactor!PipeAgrees, Compactor!First
    <3>3. Compactor!AuditAgrees' BY <1>1, <2>3, <3>1, <3>2 DEF Compactor!AuditAgrees
    <3>4. Compactor!PipeAgrees'
      BY <1>1, <2>1, <2>3, <3>1, <3>2 DEF Compactor!PipeAgrees, Compactor!First, Compactor!Working, Compactor!Stage
    <3> QED BY <3>3, <3>4
  <2> QED BY <1>1, <1>2, <1>5, <2>3, <2>4, <2>5, <2>6 DEF Compactor!CompactionTypeOK
<1>9. CASE e.type # "settled"
  <2>1. auditor' = Compactor!AcceptsEvent(auditor, e) BY <1>3, <1>9
  <2>2. /\ auditor' \in Compactor!Auditor /\ auditor'.settled = auditor.settled
        /\ (e.type = "end" \/ auditor.receipt.outcome = "completed" \/ auditor.violation =>
              auditor'.receipt.outcome = "completed" \/ auditor'.violation)
    BY <1>1, <1>3, <1>9, <2>1, AcceptsOrBlames
  <2>3. Compactor!SettledIsLast'
    <3>1. ASSUME NEW i \in 1..Len(pipe'), pipe'[i].type = "settled" PROVE i = Len(pipe') /\ worker.step = "settled"
      <4>1. i + 1 \in 1..Len(pipe) /\ pipe[i + 1].type = "settled" BY <1>6, <3>1
      <4>2. i + 1 = Len(pipe) /\ worker.step = "settled" BY <4>1 DEF Compactor!SettledIsLast, Compactor!Stage
      <4> QED BY <1>2, <4>2
    <3>2. ~auditor'.settled BY <1>7, <2>2
    <3> QED BY <1>1, <3>1, <3>2 DEF Compactor!SettledIsLast, Compactor!Stage
  <2>4. Compactor!EndIsTold'
    <3>1. ASSUME Compactor!EndWaits PROVE e.type = "end" \/ Compactor!EndWaits'
      <4>1. PICK i \in 1..Len(pipe) : pipe[i].type = "end" BY <3>1 DEF Compactor!EndWaits
      <4>2. CASE i = 1 BY <1>4, <4>1, <4>2
      <4>3. CASE i # 1
        <5>1. i - 1 \in 1..Len(pipe') /\ pipe'[i - 1] = pipe[i] BY <1>2, <4>1, <4>3
        <5> QED BY <4>1, <5>1 DEF Compactor!EndWaits
      <4> QED BY <4>2, <4>3
    <3> QED BY <1>1, <2>2, <3>1 DEF Compactor!EndIsTold
  <2>5. ASSUME ~worker'.foreign PROVE (Compactor!PipeAgrees /\ Compactor!AuditAgrees)'
    <3>1. Compactor!PipeAgrees /\ Compactor!AuditAgrees BY <1>1, <2>5
    <3>2. 1 \in 1..Len(pipe) /\ e.by = "harness" /\ e.count = 1 /\ e.large
      BY <1>2, <1>4, <1>9, <3>1 DEF Compactor!PipeAgrees
    <3>3. ~Compactor!Stage("prepare") /\ ~(Compactor!Stage("idle") /\ worker.count = 0)
      BY <1>2, <3>1 DEF Compactor!PipeAgrees
    <3>4. CASE e.type = "start"
      <4>1. auditor.phase = "idle" /\ e.attempts \in {0, 1} BY <1>4, <3>1, <3>2, <3>4 DEF Compactor!PipeAgrees
      <4>2. auditor' = [auditor EXCEPT !.phase = "started"] BY <2>1, <3>2, <3>4, <4>1 DEF Compactor!AcceptsEvent
      <4>3. auditor'.phase = "started" /\ auditor'.receipt = auditor.receipt /\ auditor'.violation = auditor.violation
            /\ auditor'.failure = auditor.failure
        BY <1>1, <4>2 DEF Compactor!Auditor
      <4>4. Compactor!AuditAgrees' BY <1>1, <3>1, <4>3 DEF Compactor!AuditAgrees
      <4>5. ASSUME Compactor!Working PROVE Len(pipe') = 0
        <5>1. Len(pipe) = 1 BY <3>1, <4>1, <4>5 DEF Compactor!PipeAgrees, Compactor!First
        <5> QED BY <1>2, <5>1
      <4>6. ~Compactor!Working => Len(pipe') > 0 /\ pipe'[1].type = "end"
        <5>1. Compactor!First("start") BY <1>2, <1>4, <3>4 DEF Compactor!First
        <5>2. ~Compactor!Working => Len(pipe) > 1 /\ pipe[2].type = "end" BY <3>1, <5>1 DEF Compactor!PipeAgrees
        <5>3. Len(pipe) > 1 => 1 \in 1..Len(pipe') /\ pipe'[1] = pipe[2] BY <1>2
        <5> QED BY <5>2, <5>3
      <4>7. \A i \in 1..Len(pipe') :
              /\ pipe'[i].type # "settled" => pipe'[i].by = "harness" /\ pipe'[i].count = 1 /\ pipe'[i].large
              /\ pipe'[i].type # "start"
              /\ pipe'[i].type = "end" =>
                   pipe'[i].outcome = worker.sent /\ pipe'[i].attempts = worker.attempts /\ worker.sent # "none"
                     /\ i = 1
        BY <1>6, <3>1 DEF Compactor!PipeAgrees
      <4>8. ~Compactor!First("start")' BY <4>7 DEF Compactor!First
      <4>9. Compactor!PipeAgrees'
        BY <1>1, <3>3, <4>3, <4>5, <4>6, <4>7, <4>8
           DEF Compactor!PipeAgrees, Compactor!First, Compactor!Working, Compactor!Stage
      <4> QED BY <4>4, <4>9
    <3>5. CASE e.type = "end"
      <4>1. auditor.phase = "started" /\ e.outcome = worker.sent /\ e.attempts = worker.attempts
              /\ worker.sent # "none"
        BY <1>4, <3>1, <3>2, <3>5 DEF Compactor!PipeAgrees
      <4>2. e.outcome \in Compactor!Outcomes /\ e.attempts \in {0, 1, 2}
              /\ (e.outcome \in Compactor!Provider \union {"completed"} => e.attempts > 0)
        BY <1>1, <1>3, <3>5, <4>1 DEF Compactor!CompactorSteps, Compactor!Event
      <4>3. ~(e.attempts > 2) /\ ~(e.attempts < 1 /\ e.outcome \in Compactor!Provider \union {"completed"}) BY <4>2
      <4>4. auditor' = [auditor EXCEPT !.phase = "completed", !.receipt = [outcome |-> e.outcome,
              attempts |-> e.attempts],
                               !.failure = IF e.outcome = "completed" THEN @ ELSE e.outcome,
                               !.violation = @ \/ e.outcome # "completed"]
        BY <2>1, <3>2, <3>5, <4>1, <4>3 DEF Compactor!AcceptsEvent
      <4>5. /\ auditor'.phase = "completed" /\ auditor'.receipt = [outcome |-> e.outcome, attempts |-> e.attempts]
            /\ (e.outcome # "completed" => auditor'.failure = e.outcome)
            /\ (e.outcome = "completed" => auditor'.failure = auditor.failure
               /\ auditor'.violation = auditor.violation)
        BY <1>1, <4>4 DEF Compactor!Auditor
      <4>6. Compactor!AuditAgrees'
        BY <1>1, <3>1, <4>1, <4>2, <4>5 DEF Compactor!AuditAgrees, Compactor!Outcomes, Compactor!Codes
      <4>7. ~Compactor!Working BY <1>1, <4>1 DEF Compactor!CompactorSteps
      <4>8. \A i \in 1..Len(pipe') : pipe'[i].type = "settled"
        <5>1. ASSUME NEW i \in 1..Len(pipe') PROVE pipe[i + 1].type = "settled"
          <6>1. i + 1 \in 1..Len(pipe) /\ i + 1 # 1 BY <1>6
          <6>2. pipe[i + 1].type \in {"start", "end", "settled"}
            <7>1. pipe[i + 1] \in Compactor!Event BY <1>1, <6>1, ElementOfSeq
            <7> QED BY <7>1 DEF Compactor!Event
          <6>3. pipe[i + 1].type # "start" BY <3>1, <6>1 DEF Compactor!PipeAgrees
          <6>4. ~Compactor!First("start") BY <1>4, <3>5 DEF Compactor!First
          <6>5. pipe[i + 1].type # "end" BY <3>1, <6>1, <6>4 DEF Compactor!PipeAgrees
          <6> QED BY <6>2, <6>3, <6>5
        <5> QED BY <1>6, <5>1
      <4>9. Compactor!PipeAgrees'
        BY <1>1, <3>3, <4>5, <4>7, <4>8 DEF Compactor!PipeAgrees, Compactor!First, Compactor!Working, Compactor!Stage
      <4> QED BY <4>6, <4>9
    <3> QED BY <1>3, <1>9, <3>4, <3>5 DEF Compactor!Event
  <2> QED BY <1>1, <1>2, <1>5, <2>2, <2>3, <2>4, <2>5 DEF Compactor!CompactionTypeOK
<1> QED BY <1>8, <1>9

LEMMA CompactionStepKeeps == Compactor!CompactionInv /\ [Compactor!CompactionNext]_compactionVars
  => Compactor!CompactionInv'
<1> SUFFICES ASSUME Compactor!CompactionInv, [Compactor!CompactionNext]_compactionVars PROVE Compactor!CompactionInv'
  OBVIOUS
<1>1. CASE UNCHANGED <<turns, worker, pipe, auditor>> /\ aborted' \in BOOLEAN
  BY <1>1 DEF Compactor!CompactionInv, Compactor!CompactionTypeOK, Compactor!CompactorSteps, Compactor!SettledIsLast,
              Compactor!EndIsTold, Compactor!EndWaits, Compactor!PipeAgrees, Compactor!AuditAgrees, Compactor!First,
                Compactor!Working, Compactor!Stage
<1>2. CASE UNCHANGED compactionVars \/ Compactor!RunnerAborts
  BY <1>1, <1>2 DEF compactionVars, Compactor!RunnerAborts, Compactor!CompactionInv, Compactor!CompactionTypeOK
<1>3. CASE Compactor!CompactionNext /\ ~Compactor!RunnerAborts
  BY <1>3, NextTurnKeeps, CompactorPreparesKeeps, RequestKeeps, ApplyKeeps, SettleKeeps, ForeignKeeps, HearsKeeps
     DEF Compactor!CompactionNext
<1> QED BY <1>2, <1>3

LEMMA CompactionInvSuffices == Compactor!CompactionInv => Compactor!NoSilentCompaction
  /\ Compactor!RunnerRecordsCompaction
<1> SUFFICES ASSUME Compactor!CompactionInv PROVE Compactor!NoSilentCompaction /\ Compactor!RunnerRecordsCompaction
  OBVIOUS
<1>1. Compactor!NoSilentCompaction
  BY DEF Compactor!NoSilentCompaction, Compactor!CompactionInv, Compactor!SettledIsLast, Compactor!EndIsTold,
     Compactor!EndWaits
<1>2. Compactor!RunnerRecordsCompaction
  BY DEF Compactor!RunnerRecordsCompaction, Compactor!CompactionInv, Compactor!AuditAgrees, Compactor!Codes
<1> QED BY <1>1, <1>2

-----------------------------------------------------------------------------
(* The services run side by side: a step of one is a stutter of the others. *)

\* The Controller keeps a verdict only when the command it planned for the commit under
\* review chose that exit, in time, in its only run, and left nothing behind.
THEOREM VerdictsAreHonest == AgentSpec => []VerdictIsHonest
<1>1. AgentInit => Validation!ValidationInv BY ValidationInitially DEF AgentInit
<1>2. [AgentNext]_agentVars => [Validation!ValidationNext]_validationVars
  BY DEF AgentNext, agentVars, LeaseRuns, ValidationRuns, EvidenceRuns, CompactionRuns
<1>3. Validation!ValidationInv /\ [AgentNext]_agentVars => Validation!ValidationInv' BY <1>2, ValidationStepKeeps
<1>4. Validation!ValidationInv => VerdictIsHonest BY ValidationInvSuffices DEF VerdictIsHonest
<1> QED BY <1>1, <1>3, <1>4, PTL DEF AgentSpec

\* What a Reviewer may rely on in every state: its files, its memory and its ledger agree.
LEMMA EvidenceHolds == AgentSpec => []Evidence!EvidenceInv
<1>1. AgentInit => Evidence!EvidenceInv BY EvidenceInitially DEF AgentInit
<1>2. [AgentNext]_agentVars => [Evidence!EvidenceNext]_evidenceVars
  BY DEF AgentNext, agentVars, LeaseRuns, ValidationRuns, EvidenceRuns, CompactionRuns
<1>3. Evidence!EvidenceInv /\ [AgentNext]_agentVars => Evidence!EvidenceInv' BY <1>2, EvidenceStepKeeps
<1> QED BY <1>1, <1>3, PTL DEF AgentSpec

\* However many Reviewers retry one another, and whatever they import, lose or find spoiled,
\* a pass is what both axes and the validation came to, for the very same context; and a
\* Reviewer with all its evidence is never refused for a proposal that does not match.
THEOREM ReviewsAreEarned == AgentSpec => []ReviewIsEarned
<1>1. Evidence!EvidenceInv => ReviewIsEarned BY EvidenceInvSuffices DEF ReviewIsEarned
<1> QED BY <1>1, EvidenceHolds, PTL

\* No history is replaced unless the end of the compaction was sent, and what the runner
\* records of it is what the child did, for any number of turns.
THEOREM CompactionsAreRecorded == AgentSpec => []CompactionIsRecorded
<1>1. AgentInit => Compactor!CompactionInv BY CompactionInitially DEF AgentInit
<1>2. [AgentNext]_agentVars => [Compactor!CompactionNext]_compactionVars
  BY DEF AgentNext, agentVars, LeaseRuns, ValidationRuns, EvidenceRuns, CompactionRuns
<1>3. Compactor!CompactionInv /\ [AgentNext]_agentVars => Compactor!CompactionInv' BY <1>2, CompactionStepKeeps
<1>4. Compactor!CompactionInv => CompactionIsRecorded BY CompactionInvSuffices DEF CompactionIsRecorded
<1> QED BY <1>1, <1>3, <1>4, PTL DEF AgentSpec
=============================================================================
