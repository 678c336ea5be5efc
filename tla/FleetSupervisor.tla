-------------------------- MODULE FleetSupervisor --------------------------
(***************************************************************************)
(* fleet/*: Supervisors that start one Controller process per project,     *)
(* adopt the ones they find, restart those that die under a budget, and    *)
(* write what they know to fleet-state.json.  Supervisors, Controllers and *)
(* people act at the same time and die at any time.  Time is relative: a   *)
(* timestamp is its age, which stops counting once nothing can tell.       *)
(***************************************************************************)
EXTENDS Integers, FiniteSets, SequencesExt

CONSTANTS
    Project, Supervisor, Controller,
    Nobody,             \* no Supervisor, no Controller
    MaxRestarts, Window, StableAfter, InitialBackoff, MaxBackoff,
    MaxRunning          \* bound: Supervisors that run at once

ASSUME FleetAssumption ==
    /\ MaxRestarts \in Nat /\ {Window, StableAfter, InitialBackoff, MaxBackoff} \subseteq Nat \ {0}
    /\ InitialBackoff =< MaxBackoff /\ MaxRunning \in Nat
    /\ Nobody \notin Supervisor \union Controller

VARIABLES
    sup,        \* how far each Supervisor process is
    mem,        \* its state.projects
    fresh,      \* the projects whose record it has not taken over
    disk,       \* fleet-state.json
    fleetLease, \* fleet-supervisor-lease.json
    ctl,        \* the Controller processes
    lease,      \* controller-lease.json of each project
    failures,   \* history: ages of the short-lived Controllers of each project
    blind       \* history: what is known of the failures of a project was lost

vars == <<sup, mem, fresh, disk, fleetLease, ctl, lease, failures, blind>>

Phase == {"pending", "running", "adopted", "backoff", "tripped", "stopping", "stopped", "unselected", "error"}
Stage == {"off", "loaded", "confirmed", "running", "stopping", "killing"}
Ages  == UNION {[1..n -> 0..Window + 1] : n \in 0..MaxRestarts + 1}

\* `age` is startedAt, `due` the time to nextStartAt.
Runtime == [phase : Phase, restarts : Ages, age : 0..StableAfter, due : 0..MaxBackoff, child : Controller \union {Nobody}]

pendingRuntime == [phase |-> "pending", restarts |-> <<>>, age |-> 0, due |-> 0, child |-> Nobody]

\* A Controller process: not there, about to acquire its lease, creating the file,
\* in possession of it, or dead and not yet noticed by its owner.
At == {"none", "booting", "creating", "leased", "exited"}
NoController == [at |-> "none", of |-> Nobody, owner |-> Nobody]

TypeOK ==
    /\ sup \in [Supervisor -> Stage]
    /\ mem \in [Supervisor -> [Project -> Runtime]]
    /\ fresh \in [Supervisor -> SUBSET Project]
    /\ disk \in [Project -> Runtime]
    /\ fleetLease \in Supervisor \union {Nobody}
    /\ ctl \in [Controller -> [at : At, of : Project \union {Nobody}, owner : Supervisor \union {Nobody}]]
    /\ lease \in [Project -> [by : Controller \union {Nobody}, written : BOOLEAN]]
    /\ failures \in [Project -> Seq(0..Window)] /\ blind \in [Project -> BOOLEAN]
    /\ \A s \in Supervisor, p \in Project :
        mem[s][p].child # Nobody => ctl[mem[s][p].child].owner = s /\ ctl[mem[s][p].child].of = p

NoLease == [by |-> Nobody, written |-> FALSE]

Init ==
    /\ sup = [s \in Supervisor |-> "off"]
    /\ mem = [s \in Supervisor |-> [p \in Project |-> pendingRuntime]]
    /\ fresh = [s \in Supervisor |-> {}]
    /\ disk = [p \in Project |-> pendingRuntime]
    /\ fleetLease = Nobody
    /\ ctl = [c \in Controller |-> NoController]
    /\ lease = [p \in Project |-> NoLease]
    /\ failures = [p \in Project |-> <<>>] /\ blind = [p \in Project |-> FALSE]

-----------------------------------------------------------------------------

Living(c)   == ctl[c].at \in {"booting", "creating", "leased"}
IsServed(p) == \E c \in Controller : Living(c) /\ ctl[c].of = p

\* observeLeasePath: a lease of a dead process is no lease; a file that is created
\* and not written is malformed, also when its creator is dead.
Observed(p) ==
    IF lease[p].by = Nobody THEN "absent"
    ELSE IF ~lease[p].written THEN "malformed"
    ELSE IF ctl[lease[p].by].at = "leased" /\ ctl[lease[p].by].of = p THEN "alive" ELSE "stale"

\* A Supervisor writes down what it knows; a write that fails after the first is a
\* warning.  The record of p can then be behind.
Saved(s) == [p \in Project |-> [mem'[s][p] EXCEPT !.child = Nobody, !.age = 0]]
Checkpoint(s) ==
    \/ disk' = Saved(s) /\ UNCHANGED blind
    \/ UNCHANGED disk /\ blind' = [p \in Project |-> TRUE]

\* Mutant: the phase of the last run is kept.
restoredRuntime_Phase(old) == [old EXCEPT !.due = IF old.phase = "backoff" THEN @ ELSE 0, !.age = 0]

\* restoredRuntime: a circuit stays open, a backoff goes on, all else starts again.
restoredRuntime(old) ==
    LET keeps == old.phase = "tripped" \/ (old.phase = "backoff" /\ old.due > 0)
    IN  [old EXCEPT !.phase = IF keeps THEN @ ELSE "pending", !.due = IF keeps THEN @ ELSE 0, !.age = 0]

\* unselectedRuntime: the history stays, the phase does not.
unselectedRuntime(old) == [old EXCEPT !.phase = "unselected", !.due = 0, !.age = 0]

\* The memory of a process that ends.
Forgets(s) ==
    /\ mem' = [mem EXCEPT ![s] = [p \in Project |-> pendingRuntime]]
    /\ fresh' = [fresh EXCEPT ![s] = {}]

-----------------------------------------------------------------------------
(* A Supervisor starts.                                                     *)

\* The constructor: the state is read before the lease is acquired.  A project that is
\* disabled, or has another configuration than its record, starts afresh.
Launch(s, selected, changed) ==
    /\ sup[s] = "off" /\ sup' = [sup EXCEPT ![s] = "loaded"]
    /\ LET old(p) == IF p \in changed THEN pendingRuntime ELSE disk[p]
       IN  mem' = [mem EXCEPT ![s] = [p \in Project |->
             IF p \in selected THEN restoredRuntime(old(p)) ELSE unselectedRuntime(old(p))]]
    /\ fresh' = [fresh EXCEPT ![s] = changed]
    /\ UNCHANGED <<disk, fleetLease, ctl, lease, failures, blind>>

Supervises(s)   == sup[s] \in {"running", "stopping", "killing"}
FleetLeaseAlive == fleetLease # Nobody /\ Supervises(fleetLease)

\* The lease of a dead process, seen twice, ...
ConfirmStale(s) ==
    /\ sup[s] = "loaded" /\ fleetLease # Nobody /\ ~FleetLeaseAlive
    /\ sup' = [sup EXCEPT ![s] = "confirmed"]
    /\ UNCHANGED <<mem, fresh, disk, fleetLease, ctl, lease, failures, blind>>

\* ... is removed, and with it whatever lease another has put there since.
UnlinkStale(s) ==
    /\ sup[s] = "confirmed" /\ sup' = [sup EXCEPT ![s] = "loaded"]
    /\ FleetLeaseAlive => Cardinality({t \in Supervisor : Supervises(t)}) < MaxRunning
    /\ fleetLease' = Nobody
    /\ UNCHANGED <<mem, fresh, disk, ctl, lease, failures, blind>>

\* What is on disk and not in memory: the phase of a project that is not selected, and
\* what was written after the constructor read.  Two Supervisors know half each.
Forgotten(s, p) ==
    \/ p \notin fresh[s] /\ mem[s][p].restarts # disk[p].restarts
    \/ p \notin fresh[s] /\ disk[p].phase = "tripped" /\ mem[s][p].phase # "tripped"
    \/ \E t \in Supervisor : Supervises(t)

\* acquireFleetLease and the first save, which must succeed before any child is started.
run(s) ==
    /\ sup[s] = "loaded" /\ fleetLease = Nobody
    /\ sup' = [sup EXCEPT ![s] = "running"] /\ fleetLease' = s
    /\ disk' = [p \in Project |-> mem[s][p]]
    /\ failures' = [p \in Project |-> IF p \in fresh[s] THEN <<>> ELSE failures[p]]
    /\ blind' = [p \in Project |-> (blind[p] /\ p \notin fresh[s]) \/ Forgotten(s, p)]
    /\ fresh' = [fresh EXCEPT ![s] = {}]
    /\ UNCHANGED <<mem, ctl, lease>>

\* The lease is held or has changed, or the save fails and the lease is given back.
RunFails(s) ==
    /\ sup[s] \in {"loaded", "confirmed"} /\ sup' = [sup EXCEPT ![s] = "off"] /\ Forgets(s)
    /\ UNCHANGED <<disk, fleetLease, ctl, lease, failures, blind>>

-----------------------------------------------------------------------------
(* One project.                                                             *)

\* `pending` is left before any other event is handled.
Handles(s) == sup[s] = "running" /\ \A p \in Project : mem[s][p].phase # "pending"

Becomes(s, p, runtime) == mem' = [mem EXCEPT ![s][p] = runtime] /\ UNCHANGED fresh

\* The last timestamps: earlier ones decide nothing.
Kept(times) == LET n == Len(times) IN SubSeq(times, IF n > MaxRestarts THEN n - MaxRestarts ELSE 1, n)

\* The timestamps of the window.  They stand in the order they were taken, so that a
\* filter drops the first of them.
Recent(times) ==
    LET recent == {i \in DOMAIN times : times[i] =< Window}
    IN  SubSeq(times, IF recent = {} THEN Len(times) + 1 ELSE Min(recent), Len(times))

\* Mutant: the limit is one too high.
decideRestart_OffByOne(r) ==
    LET history == IF r.age >= StableAfter THEN <<>> ELSE Recent(r.restarts)
        times   == Append(history, 0)
    IN  IF Len(times) > MaxRestarts + 1
          THEN [r EXCEPT !.phase = "tripped", !.restarts = Kept(times), !.due = 0]
          ELSE [r EXCEPT !.phase = "backoff", !.restarts = Kept(times), !.due = InitialBackoff]

\* The budget: a stable run forgives all, the window forgives what is old.
decideRestart(r) ==
    LET history == IF r.age >= StableAfter THEN <<>> ELSE Recent(r.restarts)
        times   == Append(history, 0)
        backoff == InitialBackoff * 2^(Len(times) - 1)
    IN  IF Len(times) > MaxRestarts
          THEN [r EXCEPT !.phase = "tripped", !.restarts = Kept(times), !.due = 0]
          ELSE [r EXCEPT !.phase = "backoff", !.restarts = times,
                         !.due = IF backoff < MaxBackoff THEN backoff ELSE MaxBackoff]

\* handleOwnedExit, of a child that is gone or that spawn did not make.
Exited(s, p, runtime) ==
    /\ Becomes(s, p, [(IF sup[s] = "running" THEN decideRestart(runtime)
                       ELSE [runtime EXCEPT !.phase = "stopped", !.due = 0]) EXCEPT !.child = Nobody, !.age = 0])
    /\ failures' = [failures EXCEPT ![p] = IF sup[s] # "running" THEN @
                                          ELSE IF runtime.age >= StableAfter THEN <<0>> ELSE Kept(Append(@, 0))]
    /\ Checkpoint(s)

handleOwnedExit(s, p) ==
    LET c == mem[s][p].child
    IN  /\ Handles(s) \/ sup[s] \in {"stopping", "killing"}
        /\ c # Nobody /\ ctl[c].at = "exited"
        /\ Exited(s, p, mem[s][p])
        /\ ctl' = [ctl EXCEPT ![c] = NoController]
        /\ UNCHANGED <<sup, fleetLease, lease>>

\* Mutant: a timer that fires while the Supervisor stops.
MayStart_Stopping(s, p) ==
    /\ sup[s] \in {"running", "stopping", "killing"}
    /\ \/ mem[s][p].phase = "pending"
       \/ mem[s][p].phase = "backoff" /\ mem[s][p].due = 0 /\ \A q \in Project : mem[s][q].phase # "pending"

\* resumeOrStart, or the timer of a backoff.
MayStart(s, p) ==
    /\ sup[s] = "running"
    /\ \/ mem[s][p].phase = "pending"
       \/ mem[s][p].phase = "backoff" /\ mem[s][p].due = 0 /\ \A q \in Project : mem[s][q].phase # "pending"

Adopt(s, p) ==
    /\ MayStart(s, p) /\ Observed(p) = "alive"
    /\ Becomes(s, p, [mem[s][p] EXCEPT !.phase = "adopted", !.due = 0]) /\ Checkpoint(s)
    /\ UNCHANGED <<sup, fleetLease, ctl, lease, failures>>

MalformedLease(s, p) ==
    /\ MayStart(s, p) \/ (Handles(s) /\ mem[s][p].phase = "adopted")
    /\ Observed(p) = "malformed"
    /\ Becomes(s, p, [mem[s][p] EXCEPT !.phase = "error", !.due = 0]) /\ Checkpoint(s)
    /\ UNCHANGED <<sup, fleetLease, ctl, lease, failures>>

Spawns(s, p) == MayStart(s, p) /\ Observed(p) \in {"absent", "stale"}

spawnProject(s, p, c) ==
    /\ Spawns(s, p) /\ ctl[c] = NoController
    /\ ctl' = [ctl EXCEPT ![c] = [at |-> "booting", of |-> p, owner |-> s]]
    /\ Becomes(s, p, [mem[s][p] EXCEPT !.phase = "running", !.age = 0, !.due = 0, !.child = c])
    /\ Checkpoint(s)
    /\ UNCHANGED <<sup, fleetLease, lease, failures>>

\* The end of a Supervisor process that is not its own doing: its children live on.
Dies(s, table) ==
    /\ sup' = [sup EXCEPT ![s] = "off"]
    /\ ctl' = [c \in Controller |-> IF table[c].owner # s THEN table[c]
                                  ELSE IF table[c].at = "exited" THEN NoController
                                  ELSE [table[c] EXCEPT !.owner = Nobody]]

\* spawn throws; or the child has no pid, and the `error` event of the child, which
\* nobody listens to yet, ends the Supervisor after the exit is handled.
SpawnFails(s, p) ==
    /\ Spawns(s, p)
    /\ \/ Exited(s, p, [mem[s][p] EXCEPT !.age = 0]) /\ UNCHANGED <<sup, ctl>>
       \/ /\ failures' = [failures EXCEPT ![p] = Kept(Append(@, 0))]
          /\ Forgets(s) /\ Dies(s, ctl)
          /\ \/ disk' = [q \in Project |-> IF q = p THEN decideRestart([mem[s][p] EXCEPT !.age = 0])
                                           ELSE [mem[s][q] EXCEPT !.child = Nobody, !.age = 0]]
                /\ UNCHANGED blind
             \/ UNCHANGED disk /\ blind' = [q \in Project |-> TRUE]
    /\ UNCHANGED <<fleetLease, lease>>

\* The poll of an adopted Controller finds it gone.
AdoptedEnds(s, p) ==
    /\ Handles(s) /\ mem[s][p].phase = "adopted" /\ Observed(p) \in {"absent", "stale"}
    /\ Becomes(s, p, [mem[s][p] EXCEPT !.phase = "pending"]) /\ Checkpoint(s)
    /\ UNCHANGED <<sup, fleetLease, ctl, lease, failures>>

-----------------------------------------------------------------------------
(* A Supervisor stops, or is killed; an operator resets a circuit.          *)

Stop(s) ==
    /\ Handles(s) /\ sup' = [sup EXCEPT ![s] = "stopping"]
    /\ mem' = [mem EXCEPT ![s] = [p \in Project |->
         IF mem[s][p].child # Nobody THEN [mem[s][p] EXCEPT !.phase = "stopping"] ELSE mem[s][p]]]
    /\ Checkpoint(s)
    /\ UNCHANGED <<fresh, fleetLease, ctl, lease, failures>>

\* The grace period is over, or every child has ended.
Kill(s) ==
    /\ sup[s] = "stopping" /\ sup' = [sup EXCEPT ![s] = "killing"]
    /\ ctl' = [c \in Controller |-> IF ctl[c].owner = s THEN [ctl[c] EXCEPT !.at = "exited"] ELSE ctl[c]]
    /\ UNCHANGED <<mem, fresh, disk, fleetLease, lease, failures, blind>>

Finish(s) ==
    /\ sup[s] = "killing" /\ sup' = [sup EXCEPT ![s] = "off"] /\ Forgets(s)
    /\ fleetLease' = IF fleetLease = s THEN Nobody ELSE fleetLease
    /\ \/ /\ disk' = [p \in Project |-> [mem[s][p] EXCEPT !.child = Nobody, !.age = 0,
                                        !.phase = IF mem[s][p].child # Nobody THEN "stopped" ELSE @]]
          /\ UNCHANGED blind
       \/ UNCHANGED disk /\ blind' = [p \in Project |-> TRUE]
    /\ ctl' = [c \in Controller |-> IF ctl[c].owner = s /\ ctl[c].at = "exited" THEN NoController ELSE ctl[c]]
    /\ UNCHANGED <<lease, failures>>

Crash(s) ==
    /\ sup[s] # "off" /\ Dies(s, ctl) /\ Forgets(s)
    /\ UNCHANGED <<disk, fleetLease, lease, failures, blind>>

resetFleetProject(p) ==
    /\ ~FleetLeaseAlive /\ fleetLease' = Nobody
    /\ disk' = [disk EXCEPT ![p] = [pendingRuntime EXCEPT !.phase = "stopped"]]
    /\ failures' = [failures EXCEPT ![p] = <<>>]
    /\ blind' = [blind EXCEPT ![p] = \E s \in Supervisor : Supervises(s)]
    /\ UNCHANGED <<sup, mem, fresh, ctl, lease>>

-----------------------------------------------------------------------------
(* The Controllers, started by a Supervisor, by `fleet tick` or by hand.    *)

Gone(c) == IF ctl[c].owner = Nobody THEN NoController ELSE [ctl[c] EXCEPT !.at = "exited"]

runProjectTick(p, c) ==
    /\ ctl[c] = NoController
    /\ ctl' = [ctl EXCEPT ![c] = [at |-> "booting", of |-> p, owner |-> Nobody]]
    /\ UNCHANGED <<sup, mem, fresh, disk, fleetLease, lease, failures, blind>>

acquireControllerLease(c) ==
    LET p == ctl[c].of
    IN  /\ ctl[c].at = "booting"
        /\ IF Observed(p) \in {"absent", "stale"}
             THEN /\ lease' = [lease EXCEPT ![p] = [by |-> c, written |-> FALSE]]
                  /\ ctl' = [ctl EXCEPT ![c].at = "creating"]
             ELSE ctl' = [ctl EXCEPT ![c] = Gone(c)] /\ UNCHANGED lease
        /\ UNCHANGED <<sup, mem, fresh, disk, fleetLease, failures, blind>>

WriteLease(c) ==
    /\ ctl[c].at = "creating"
    /\ ctl' = [ctl EXCEPT ![c].at = "leased"]
    /\ lease' = [lease EXCEPT ![ctl[c].of].written = TRUE]
    /\ UNCHANGED <<sup, mem, fresh, disk, fleetLease, failures, blind>>

\* It ends and releases what it holds, or it is killed and does not: by the timeout of
\* the tick, by the system, or by SIGTERM of a Supervisor that stops.
Ends(c) ==
    /\ Living(c) /\ ctl' = [ctl EXCEPT ![c] = Gone(c)]
    /\ \/ UNCHANGED lease
       \/ ctl[c].at = "leased" /\ lease' = [lease EXCEPT ![ctl[c].of] = NoLease]
    /\ UNCHANGED <<sup, mem, fresh, disk, fleetLease, failures, blind>>

\* A person removes a malformed lease.
RemoveLease(p) ==
    /\ Observed(p) = "malformed" /\ ctl[lease[p].by].at # "creating"
    /\ lease' = [lease EXCEPT ![p] = NoLease]
    /\ UNCHANGED <<sup, mem, fresh, disk, fleetLease, ctl, failures, blind>>

Older(ages) == [i \in DOMAIN ages |-> IF ages[i] =< Window THEN ages[i] + 1 ELSE ages[i]]
Later(r) ==
    [r EXCEPT !.restarts = Older(@), !.due = IF @ > 0 THEN @ - 1 ELSE 0,
              !.age = IF r.phase \in {"running", "stopping"} /\ @ < StableAfter THEN @ + 1 ELSE @]

Time ==
    /\ mem' = [s \in Supervisor |-> [p \in Project |-> Later(mem[s][p])]]
    /\ disk' = [p \in Project |-> [disk[p] EXCEPT !.restarts = Older(@), !.due = IF @ > 0 THEN @ - 1 ELSE 0]]
    /\ failures' = [p \in Project |-> Recent(Older(failures[p]))]
    /\ UNCHANGED <<sup, fresh, fleetLease, ctl, lease, blind>>

-----------------------------------------------------------------------------

Starts(s, p) == Adopt(s, p) \/ MalformedLease(s, p) \/ SpawnFails(s, p) \/ \E c \in Controller : spawnProject(s, p, c)

Next ==
    \/ \E s \in Supervisor :
        \/ \E selected, changed \in SUBSET Project : Launch(s, selected, changed)
        \/ ConfirmStale(s) \/ UnlinkStale(s) \/ run(s) \/ RunFails(s) \/ Stop(s) \/ Kill(s) \/ Finish(s) \/ Crash(s)
        \/ \E p \in Project : Starts(s, p) \/ handleOwnedExit(s, p) \/ AdoptedEnds(s, p)
    \/ \E p \in Project : resetFleetProject(p) \/ RemoveLease(p) \/ \E c \in Controller : runProjectTick(p, c)
    \/ \E c \in Controller : acquireControllerLease(c) \/ WriteLease(c) \/ Ends(c)
    \/ Time

Spec == Init /\ [][Next]_vars

\* A running event loop reaches its timers and events, time passes, and the system does
\* not refuse a process for ever.
FairSpec ==
    /\ Spec /\ WF_vars(Time)
    /\ \A s \in Supervisor, p \in Project :
        /\ WF_vars(Starts(s, p)) /\ SF_vars(\E c \in Controller : spawnProject(s, p, c))
        /\ WF_vars(handleOwnedExit(s, p)) /\ WF_vars(AdoptedEnds(s, p))

-----------------------------------------------------------------------------

Spawned(p) == \E c \in Controller : ctl[c] = NoController /\ ctl'[c].of = p /\ ctl'[c].owner # Nobody

\* README.md:125 and fleet.zh-CN.md:137: whatever Supervisors stop, die and follow one
\* another, none starts a Controller of a project of which more than MaxRestarts
\* short-lived ones ended within the window, counted afresh for a new configuration, as
\* long as what was known of them was not lost (a failed write, a project left out, a
\* record read before it was written, two Supervisors at once).
RestartBudget == [][\A p \in Project : Spawned(p) /\ ~blind[p] =>
                     Cardinality({i \in DOMAIN failures[p] : failures[p][i] =< Window}) =< MaxRestarts]_vars

\* A Supervisor that stops in order leaves no Controller of its own behind, whenever
\* the signal comes: between a spawn and its exit, or while a restart is due.
StopIsClean == \A c \in Controller : ctl[c].owner # Nobody => Supervises(ctl[c].owner)

\* While a Supervisor runs, a selected project without a Controller gets one, or its
\* circuit is open, or its lease was found malformed: it then needs a person, also when
\* it was only read while its Controller wrote it.
Supervised == \A s \in Supervisor, p \in Project :
    sup[s] = "running" /\ mem[s][p].phase # "unselected"
      ~> sup[s] # "running" \/ IsServed(p) \/ mem[s][p].phase \in {"tripped", "error"}

\* lease.ts:41: a Supervisor that finds a living one gives up.
OneSupervisor == \A s, t \in Supervisor : Supervises(s) /\ Supervises(t) => s = t

\* docs/fleet.zh-CN.md:137, ARCHITECTURE.zh-CN.md:373: an open circuit survives a
\* restart of the Supervisor; only a reset closes it.
TripIsKept == [][\A p \in Project : disk[p].phase = "tripped" =>
                  disk'[p].phase = "tripped" \/ disk'[p].restarts = <<>>]_vars

=============================================================================
