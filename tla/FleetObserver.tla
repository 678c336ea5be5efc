---------------------------- MODULE FleetObserver ----------------------------
(***************************************************************************)
(* fleet-observer.ts: polls a projection of the Fleet, compares it with    *)
(* the last one and queues a notice of each change; comparison and queue   *)
(* are one file.  One project; a notice says what it is about and after    *)
(* which change of the Fleet it was seen, as its dedupe key holds the time.*)
(***************************************************************************)
EXTENDS Integers, FiniteSets

CONSTANT MaxChanges     \* bound: changes of the Fleet

FleetObserverBounds == MaxChanges \in Nat

VARIABLES
    fleet,      \* what there is to project
    watcher,    \* the state file of the Observer
    watch,      \* where its cycle is
    heard,      \* notices that reached the operator
    calm        \* for each alarm, the last change the Observer kept a view without it after

fleetObserverVars == <<fleet, watcher, watch, heard, calm>>

Phases == {"starting", "running", "adopted", "backoff", "tripped", "error"}
Alarming == {"backoff", "tripped", "error"}
Troubles == {"down", "drift", "unhealthy"}
Alarms == Alarming \union Troubles
News == [what : Alarms \union {"up", "healthy", "adopted", "running"}, at : 0..MaxChanges]
Never == MaxChanges + 1

FleetObserverTypeOK ==
    /\ fleet \in [readable : BOOLEAN, named : BOOLEAN, phase : Phases, troubles : SUBSET Troubles,
                  changes : 0..MaxChanges]
    /\ watcher \in [ready : BOOLEAN, phase : Phases \union {"none"}, troubles : SUBSET Troubles, outbox : SUBSET News]
    /\ watch \in {"flush", "observe", "report"} /\ heard \subseteq News /\ calm \in [Alarms -> 0..Never]

\* emptyState: the Supervisor is neither up nor down, and no phase is known.
FleetObserverInit ==
    /\ \E phase \in Phases, troubles \in SUBSET Troubles :
        fleet = [readable |-> TRUE, named |-> TRUE, phase |-> phase, troubles |-> troubles, changes |-> 0]
    /\ watcher = [ready |-> FALSE, phase |-> "none", troubles |-> {}, outbox |-> {}]
    /\ watch = "flush" /\ heard = {} /\ calm = [a \in Alarms |-> Never]

-----------------------------------------------------------------------------

Flips(set, element) == (set \ {element}) \union ({element} \ set)

FleetChanges ==
    /\ fleet.changes < MaxChanges
    /\ \E next \in {[fleet EXCEPT !.readable = ~@], [fleet EXCEPT !.named = ~@]}
                     \union {[fleet EXCEPT !.phase = phase] : phase \in Phases \ {fleet.phase}}
                     \union {[fleet EXCEPT !.troubles = Flips(@, trouble)] : trouble \in Troubles} :
        fleet' = [next EXCEPT !.changes = @ + 1]
    /\ UNCHANGED <<watcher, watch, heard, calm>>

Of(whats) == [what : whats, at : {fleet.changes}]

\* enqueueProjectPhase: a phase that calls for attention, and the return from one.
PhaseNews ==
    IF watcher.phase \in {"none", fleet.phase} THEN {}
    ELSE IF fleet.phase = "running" /\ watcher.phase = "starting" THEN {}
    ELSE {fleet.phase} \ {"starting"}

\* The end of a trouble that is told; a drift ends in silence.
Relief(trouble) == CASE trouble = "down" -> {"up"} [] trouble = "unhealthy" -> {"healthy"} [] OTHER -> {}

\* The health of a Controller whose phase was not known is no news.
TroubleNews ==
    LET known == IF watcher.phase = "none" THEN {"unhealthy"} ELSE {}
    IN  (fleet.troubles \ (watcher.troubles \union known))
            \union UNION {Relief(trouble) : trouble \in watcher.troubles \ fleet.troubles}

\* Mutant: what was seen is kept in the file, what it calls for is not.
Keeps_Forgets(seen, news) == watcher' = seen

\* saveFleetObserverState: the view that was compared, and the queue.
Keeps(seen, news) == watcher' = [seen EXCEPT !.outbox = @ \union Of(news)]

FleetAlarms(view) == view.troubles \union (Alarming \intersect {view.phase})

Baseline == [watcher EXCEPT !.ready = TRUE, !.phase = fleet.phase, !.troubles = fleet.troubles]

\* The history: from when on the Observer owes a notice of an alarm.  An alarm of the first
\* view of it is not owed.
Remembers(seen) ==
    calm' = [a \in Alarms |-> IF a \notin FleetAlarms(seen) /\ (seen.phase # "none" \/ a = "down")
                                THEN fleet.changes ELSE calm[a]]

\* The projection needs the configuration of the Fleet, as its name does.
Projected == fleet.readable /\ fleet.named

\* fleetEvent: an alarm of the Fleet itself carries its name.
Nameless == ~fleet.named /\ "down" \notin watcher.troubles

\* cycle: the first view is only kept; a projection that cannot be read is told as a
\* Supervisor that is down, and leaves the rest of the view alone.
Watches ==
    /\ watch = "observe" /\ ~Nameless
    /\ IF ~Projected
         THEN LET seen == [watcher EXCEPT !.ready = TRUE, !.troubles = @ \union {"down"}]
              IN  Keeps(seen, {"down"} \ watcher.troubles) /\ Remembers(seen)
         ELSE Keeps(Baseline, IF watcher.ready THEN PhaseNews \union TroubleNews ELSE {}) /\ Remembers(Baseline)
    /\ watch' = "report" /\ UNCHANGED <<fleet, heard>>

\* The alarm is thrown away with the process: nothing is queued or kept.
WatchThrows ==
    /\ watch = "observe" /\ Nameless
    /\ watch' = "flush" /\ UNCHANGED <<fleet, watcher, heard, calm>>

AfterReport == IF watch = "flush" THEN "observe" ELSE "flush"

\* flush, over what is due; it stops at the first delivery that fails, and may have arrived.
Delivers(key) ==
    /\ watch \in {"flush", "report"} /\ key \in watcher.outbox
    /\ watcher' = [watcher EXCEPT !.outbox = @ \ {key}]
    /\ heard' = heard \union {key} /\ UNCHANGED <<fleet, watch, calm>>

Postpones(key) ==
    /\ watch \in {"flush", "report"} /\ key \in watcher.outbox
    /\ watch' = AfterReport /\ heard' \in {heard, heard \union {key}} /\ UNCHANGED <<fleet, watcher, calm>>

NothingIsDue == watch \in {"flush", "report"} /\ watch' = AfterReport /\ UNCHANGED <<fleet, watcher, heard, calm>>

\* It ends between two saves and is started again; a notice may have arrived.
FleetObserverDies ==
    /\ watch' = "flush" /\ UNCHANGED <<fleet, watcher, calm>>
    /\ \E some \in SUBSET watcher.outbox : Cardinality(some) =< 1 /\ heard' = heard \union some

FleetObserverNext ==
    \/ FleetChanges \/ Watches \/ WatchThrows \/ NothingIsDue \/ FleetObserverDies
    \/ \E key \in watcher.outbox : Delivers(key) \/ Postpones(key)

-----------------------------------------------------------------------------

\* Changes are told once and then compared away: an alarm the Observer holds as seen, after
\* it kept a view without it, was told since then or waits to be told, whatever crashes,
\* failed deliveries and unreadable projections lie between.
AlarmsAreTold ==
    \A a \in FleetAlarms(watcher) :
        calm[a] # Never =>
            \E key \in watcher.outbox \union heard : key.what = a /\ key.at >= calm[a]
-----------------------------------------------------------------------------
(* Why it holds: the inductive invariant.                                   *)

\* Nothing is owed before a phase is known, and nothing from a change that did not happen.
CalmIsPast ==
    /\ ~watcher.ready => watcher.phase = "none"
    /\ watcher.phase = "none" => \A a \in Alarms : calm[a] = Never
    /\ \A a \in Alarms : calm[a] # Never => calm[a] =< fleet.changes

FleetObserverInv == FleetObserverTypeOK /\ CalmIsPast /\ AlarmsAreTold
=============================================================================
