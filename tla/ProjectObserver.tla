--------------------------- MODULE ProjectObserver ---------------------------
(***************************************************************************)
(* The Observer of a project: it polls the ledger, the Controller's log    *)
(* and its heartbeat, compares them with what it saw last, and queues a    *)
(* notice of each change; the queue and the comparison are one file.       *)
(* Version 1 is hermes-observer.ts; version 2, observer/project-*.ts, is   *)
(* chosen by the configuration and differs where a definition says so.     *)
(* The queue is a set: an entry is due until it is tried, and at times of  *)
(* its own after that, so any may be the first that is due.                *)
(***************************************************************************)
EXTENDS Integers, Sequences, FiniteSets

CONSTANTS
    MaxJobs,        \* bound: Jobs of the project
    MaxIncidents,   \* bound: incidents
    MaxLines,       \* bound: lines of the Controller's log
    MaxFaults,      \* bound: times the ledger, the log or the heartbeat fails
    MAX_OUTBOX,     \* entries an outbox holds
    TerminalWindow  \* MAX_TERMINAL_EVENTS: terminal Jobs a projection of version 2 carries

ObserverBounds ==
    /\ {MaxJobs, MaxIncidents, MaxLines, MaxFaults} \subseteq Nat
    /\ {MAX_OUTBOX, TerminalWindow} \subseteq Nat \ {0}

VARIABLES
    version,    \* transportVersion of the configuration
    project,    \* what there is to see: ledger, log and heartbeat
    observer,   \* the state file of the Observer
    cycle,      \* where the cycle is
    chat,       \* notices of terminal Jobs that reached the operator
    since       \* the terminal Jobs of the first baseline

observerVars == <<version, project, observer, cycle, chat, since>>

NoJob == [id |-> 0, state |-> "none", incident |-> 0, advice |-> "none", by |-> "none", recoveries |-> 0]

JobStates == {"none", "running", "blocked", "recovery_approved"}

Jobs == [id : Nat, state : JobStates, incident : Nat, advice : {"none", "retry", "hold"},
         by : {"none", "rule", "operator"}, recoveries : Nat]
Projects ==
    [readable : BOOLEAN, job : Jobs, terminals : 0..MaxJobs, incidents : Nat, log : Seq({"ok", "failed"}),
     beats : BOOLEAN, faults : Nat]
Views ==
    [ready : BOOLEAN, healthy : BOOLEAN, job : Nat, incident : Nat, analysis : Nat, recoveries : Nat,
     terminals : 0..MaxJobs, logReady : BOOLEAN, offset : Nat, alert : BOOLEAN, down : BOOLEAN]

Notice(what, of) == [what |-> what, of |-> of]
Notices == [what : {"job", "terminal", "window_exceeded", "incident", "analysis", "approval", "recovery", "failure",
                    "log_reset", "ledger_unavailable", "ledger_restored", "controller_down", "controller_up"},
            of : Nat]

ObserverTypeOK ==
    /\ version \in {1, 2} /\ project \in Projects
    /\ observer \in [view : Views, outbox : SUBSET Notices, tried : SUBSET Notices]
    /\ cycle \in {"flush", "observe", "report"} /\ chat \subseteq Notices /\ since \in 0..MaxJobs

Blank ==
    [view |-> [ready |-> FALSE, healthy |-> TRUE, job |-> 0, incident |-> 0, analysis |-> 0, recoveries |-> 0,
               terminals |-> 0, logReady |-> FALSE, offset |-> 0, alert |-> FALSE, down |-> FALSE],
     outbox |-> {}, tried |-> {}]

ObserverInit ==
    /\ version \in {1, 2} /\ cycle = "flush"
    /\ project = [readable |-> TRUE, job |-> NoJob, terminals |-> 0, incidents |-> 0, log |-> <<>>, beats |-> TRUE, faults |-> 0]
    /\ observer = Blank
    /\ chat = {} /\ since = MaxJobs

-----------------------------------------------------------------------------
(* The project, as far as the Observer sees it: the Controller's saves, its *)
(* log and its heartbeat.                                                   *)

Job == project.job
Saves(job) == project' = [project EXCEPT !.job = job]

SelectsJob == Job = NoJob /\ project.terminals < MaxJobs
              /\ Saves([NoJob EXCEPT !.id = project.terminals + 1, !.state = "running"])

Blocks ==
    /\ Job.state = "running" /\ project.incidents < MaxIncidents
    /\ project' = [project EXCEPT !.incidents = @ + 1,
                                  !.job = [@ EXCEPT !.state = "blocked", !.incident = project.incidents + 1]]

Advises == Job.state = "blocked" /\ Job.advice = "none"
           /\ \E advice \in {"retry", "hold"} : Saves([Job EXCEPT !.advice = advice])

\* authorizeAutomaticRecovery, with or without the advice of an Analyst.
RecoversByRule ==
    /\ Job.state = "blocked" /\ Job.advice = "none"
    /\ \E advice \in {"retry", "none"} :
        Saves([Job EXCEPT !.state = "recovery_approved", !.by = "rule", !.advice = advice, !.recoveries = @ + 1])

OperatorApproves == Job.state = "blocked" /\ Job.advice = "retry"
                    /\ Saves([Job EXCEPT !.state = "recovery_approved", !.by = "operator"])

StartsRecovery == Job.state = "recovery_approved"
                  /\ Saves([NoJob EXCEPT !.id = Job.id, !.state = "running", !.recoveries = Job.recoveries])

\* Merged, or cancelled by the operator.
Finishes ==
    /\ \/ Job.state = "running"
       \/ Job.state = "blocked" /\ Job.advice = "hold"
    /\ project' = [project EXCEPT !.job = NoJob, !.terminals = @ + 1]

Fails(failed) == project.faults < MaxFaults /\ project' = [failed EXCEPT !.faults = @ + 1]

LedgerBreaks == project.readable /\ Fails([project EXCEPT !.readable = FALSE])
LedgerMended == ~project.readable /\ project' = [project EXCEPT !.readable = TRUE]
Logs         == \E line \in {"ok", "failed"} :
                    Len(project.log) < MaxLines /\ project' = [project EXCEPT !.log = Append(@, line)]
LogRotates   == project.log # <<>> /\ Fails([project EXCEPT !.log = <<>>])
Stalls       == project.beats /\ Fails([project EXCEPT !.beats = FALSE])
Beats        == ~project.beats /\ project' = [project EXCEPT !.beats = TRUE]

ProjectMoves ==
    /\ \/ SelectsJob \/ Blocks \/ Advises \/ RecoversByRule \/ OperatorApproves \/ StartsRecovery \/ Finishes
       \/ LedgerBreaks \/ LedgerMended \/ Logs \/ LogRotates \/ Stalls \/ Beats
    /\ UNCHANGED <<version, observer, cycle, chat, since>>

-----------------------------------------------------------------------------
(* What the Observer makes of a Job it reads.                               *)

\* operatorActionsFor offers approve_retry.
AwaitsApproval(job) == job.state = "blocked" /\ job.advice = "retry"

AnalysisOf(job) == IF job.advice = "none" THEN 0 ELSE job.incident

\* enqueueAnalysis and what stands in for it: the request of an approval, the advice, or
\* the incident, the first that is new.
Situation(job, incident, analysis) ==
    IF AnalysisOf(job) \notin {0, analysis}
      THEN {Notice(IF AwaitsApproval(job) THEN "approval" ELSE "analysis", job.incident)}
    ELSE IF job.incident \notin {0, incident} THEN {Notice("incident", job.incident)}
    ELSE {}

\* Automatic recoveries beyond the first `offset` of a Job, by their number.
Recoveries(job, offset) ==
    {Notice("recovery", (MaxIncidents + 1) * job.id + n) : n \in (offset + 1)..job.recoveries}

\* enqueueCurrentAutomaticRecovery (version 1): the one being applied; version 2 tells all.
FirstRecoveries(job) ==
    IF version = 2 THEN Recoveries(job, 0)
    ELSE IF job.state = "recovery_approved" /\ job.by = "rule" THEN Recoveries(job, job.recoveries - 1)
    ELSE {}

\* A recovery that was authorised stands for whatever else is new.
FirstOf(a, b) == IF a # {} THEN a ELSE b

\* Terminal Jobs that were added; a projection of version 2 may not reach back so far.
Ended(view) ==
    IF version = 2 /\ view.terminals < project.terminals - TerminalWindow
      THEN {Notice("window_exceeded", project.terminals)}
      ELSE {Notice("terminal", t) : t \in (view.terminals + 1)..project.terminals}

JobNews(view) ==
    IF Job = NoJob THEN {}
    ELSE IF Job.id # view.job
      THEN {Notice("job", Job.id)} \union FirstOf(FirstRecoveries(Job), Situation(Job, 0, 0))
      ELSE FirstOf(Recoveries(Job, view.recoveries), Situation(Job, view.incident, view.analysis))

\* The first view of a ledger; version 2 tells nothing of it.
FirstNews == IF version = 2 \/ Job = NoJob THEN {} ELSE FirstOf(FirstRecoveries(Job), Situation(Job, 0, 0))

\* observeHeartbeat; in version 2 the projection of the ledger carries the health of the
\* Controller.
HeartbeatNews(view) ==
    IF project.beats = ~view.down THEN {}
    ELSE {Notice(IF view.down THEN "controller_up" ELSE "controller_down", 0)}

Mended(view) == IF ~view.healthy /\ view.ready THEN {Notice("ledger_restored", 0)} ELSE {}

LedgerNews(view) ==
    Mended(view) \union
        IF ~view.ready THEN FirstNews
        ELSE Ended(view) \union JobNews(view) \union IF version = 2 THEN HeartbeatNews(view) ELSE {}

\* baselineLedger.
Baseline(view) ==
    [view EXCEPT !.ready = TRUE, !.healthy = TRUE, !.job = Job.id, !.incident = Job.incident,
                 !.analysis = AnalysisOf(Job), !.recoveries = Job.recoveries, !.terminals = project.terminals,
                 !.down = IF version = 2 THEN ~project.beats ELSE @]

\* observeControllerEvent: a failure is told once until the Controller is well again.
Lines(view) == SubSeq(project.log, view.offset + 1, Len(project.log))
Shrank(view) == Len(project.log) < view.offset
TellsLine(view, i) ==
    Lines(view)[i] = "failed" /\ (IF i = 1 THEN ~view.alert ELSE Lines(view)[i - 1] = "ok")
LogNews(view) ==
    IF ~view.logReady THEN {}
    ELSE IF Shrank(view) THEN {Notice("log_reset", 0) : v \in {version} \ {2}}
    ELSE {Notice("failure", view.offset + i) : i \in {l \in DOMAIN Lines(view) : TellsLine(view, l)}}

\* observeControllerLog: what is there at first, and a log that shrank, is only measured.
AfterLog(view) ==
    [view EXCEPT !.logReady = TRUE, !.offset = Len(project.log),
                 !.alert = IF view.logReady /\ Lines(view) # <<>> THEN project.log[Len(project.log)] = "failed"
                           ELSE @ /\ ~(view.logReady /\ Shrank(view) /\ version = 2),
                 !.down = IF version = 1 THEN ~project.beats ELSE @]

-----------------------------------------------------------------------------
(* The cycle.                                                               *)

Fixed == UNCHANGED <<version, project>>
Enters(stage) == cycle' = stage
AfterFlush == IF cycle = "flush" THEN "observe" ELSE "flush"

\* An exception anywhere ends the process; it is started again and reads its file, as
\* every cycle does.
Dies == Enters("flush") /\ UNCHANGED <<observer, since>>

\* Nothing is due: on to the next stage.
Flushed ==
    /\ cycle \in {"flush", "report"} /\ observer.outbox = observer.tried
    /\ Enters(AfterFlush) /\ UNCHANGED <<version, project, observer, chat, since>>

Sending(key) == cycle \in {"flush", "report"} /\ key \in observer.outbox /\ Fixed /\ UNCHANGED since
Sent(key) == observer' = [observer EXCEPT !.outbox = @ \ {key}, !.tried = @ \ {key}]
Arrives(key) == chat' = chat \union {k \in {key} : k.what \in {"terminal", "window_exceeded"}}

\* flushOutbox reads the ledger again before it asks for an approval.
Withdrawn(key) == key.what = "approval" /\ project.readable
                  /\ ~(AwaitsApproval(Job) /\ AnalysisOf(Job) = key.of)
Unreadable(key) == key.what = "approval" /\ ~project.readable
MaySend(key) == ~Withdrawn(key) /\ ~Unreadable(key)

Withdraws(key) == Sending(key) /\ Withdrawn(key) /\ Sent(key) /\ UNCHANGED <<cycle, chat>>

Sends(key) == Sending(key) /\ MaySend(key) /\ Arrives(key) /\ Sent(key) /\ UNCHANGED cycle

\* It arrived, and the process died before the file said so.
SendsAndDies(key) ==
    Sending(key) /\ MaySend(key) /\ Arrives(key) /\ Enters("flush") /\ UNCHANGED <<observer>>

\* retryEntry ends the flush; a delivery that timed out may have arrived.
FailsToSend(key) ==
    /\ Sending(key) /\ ~Withdrawn(key) /\ ~(version = 2 /\ Unreadable(key))
    /\ Enters(AfterFlush) /\ observer' = [observer EXCEPT !.tried = @ \union {key}]
    /\ UNCHANGED chat \/ (MaySend(key) /\ Arrives(key))

\* flushProjectOutbox (version 2) does not catch the error of the ledger.
FlushThrows(key) == Sending(key) /\ version = 2 /\ Unreadable(key) /\ Dies /\ UNCHANGED chat

\* observeLedger: the news of the ledger and the view of it to keep.
OfLedger(view) ==
    IF project.readable THEN [news |-> LedgerNews(view), view |-> Baseline(view)]
    ELSE [news |-> {n \in {Notice("ledger_unavailable", 0)} : view.healthy}, view |-> [view EXCEPT !.healthy = FALSE]]

\* observeControllerLog and observeHeartbeat.
OfController(view) ==
    [news |-> LogNews(view) \union IF version = 1 THEN HeartbeatNews(view) ELSE {}, view |-> AfterLog(view)]

\* Mutant: what was seen is kept in the file, what it calls for is not.
Kept_Forgets(view, outbox) == [observer EXCEPT !.view = view]
\* Mutant: the queue is kept in the file, what was seen of the ledger is not.
Kept_Replays(view, outbox) ==
    [observer EXCEPT !.view = [view EXCEPT !.terminals = observer.view.terminals, !.job = observer.view.job],
                     !.outbox = outbox]

\* saveState.
Kept(view, outbox) == [observer EXCEPT !.view = view, !.outbox = outbox]

\* The reads of a cycle, in memory, and their save.  A full outbox ends the process; the
\* catch of version 2 around the log stops at the line that does not fit, counts it and all
\* behind it as read, and keeps what was queued before.
Observes ==
    /\ cycle = "observe" /\ Fixed /\ UNCHANGED chat
    /\ LET ledger     == OfLedger(observer.view)
           controller == OfController(ledger.view)
           first      == observer.outbox \union ledger.news
           all        == first \union controller.news
           upTo(line) == first \union {n \in controller.news : n.of =< line}
           Fits(outbox) == Cardinality(outbox) =< MAX_OUTBOX
       IN  IF ~Fits(first) \/ (version = 1 /\ ~Fits(all)) THEN Dies
           ELSE \E line \in 0..Len(project.log) :
                /\ Fits(upTo(line)) /\ (upTo(line) = all \/ ~Fits(upTo(line + 1)))
                /\ Enters("report")
                /\ observer' = Kept([controller.view EXCEPT !.alert = @ \/ upTo(line) # all], upTo(line))
                /\ since' = IF project.readable /\ ~observer.view.ready
                              THEN project.terminals ELSE since

ObserverCrashes == cycle # "flush" /\ Dies /\ Fixed /\ UNCHANGED chat

ObserverActs ==
    \/ Flushed \/ Observes
    \/ \E key \in observer.outbox :
        Withdraws(key) \/ Sends(key) \/ SendsAndDies(key) \/ FailsToSend(key) \/ FlushThrows(key)

\* The process is started again whenever it ends and gets through its cycle now and then, and
\* deliveries succeed now and then; the project does not have to move.
ObserverFairness ==
    /\ WF_observerVars(ObserverActs) /\ SF_observerVars(Observes) /\ SF_observerVars(Flushed)
    /\ SF_observerVars(\E key \in observer.outbox : Sends(key) \/ Withdraws(key))

ObserverNext == ProjectMoves \/ ObserverActs \/ ObserverCrashes

\* The notices that tell of terminal Job t.
EndOf(t) == {Notice("terminal", t)} \union {Notice("window_exceeded", n) : n \in t..MaxJobs}

Waits(key) == key \in observer.outbox
Told(key) == key \in chat

\* saveState keeps the queue and the comparison in one file: a terminal Job the Observer
\* counts as seen is told, or waits to be told, whatever crashes, failed deliveries and
\* full queues lie between (README of hermes-telegram: it sends the terminal state).
NothingForgotten ==
    observer.view.ready =>
        \A t \in (since + 1)..observer.view.terminals : \E key \in EndOf(t) : Waits(key) \/ Told(key)

\* "Observer restart does not replay historical normal progress": the end of a Job that
\* reached the operator and left the queue never enters it again.
NothingComesBack == \A key \in chat : key.what = "terminal" /\ ~Waits(key) => ~Waits(key)'
NoReplay == [][NothingComesBack]_observerVars

\* The Observer sends "Controller/ledger health transitions": one that is started again
\* whenever it ends notices a ledger that stays unreadable.
LedgerFailureNoticed == <>[](~project.readable) => <>(~observer.view.healthy)
-----------------------------------------------------------------------------
(* Why NothingForgotten and NoReplay hold: the inductive invariant.         *)

\* The Observer is behind the project, and never ahead of what it counts as seen.
ObserverFollows ==
    /\ project.job.state # "none" => project.terminals < MaxJobs
    /\ project.job.state = "none" => project.job = NoJob
    /\ observer.view.terminals =< project.terminals
    /\ \A key \in observer.outbox \union chat :
        key.what = "terminal" => observer.view.ready /\ key.of =< observer.view.terminals

\* enqueue refuses what does not fit.
OutboxFits == IsFiniteSet(observer.outbox) /\ Cardinality(observer.outbox) =< MAX_OUTBOX

ObserverInv == ObserverTypeOK /\ OutboxFits /\ ObserverFollows /\ NothingForgotten
=============================================================================
