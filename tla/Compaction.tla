----------------------------- MODULE Compaction -----------------------------
(***************************************************************************)
(* The controlled compaction of a Worker's context: between two turns the  *)
(* child replaces a long history by a summary, once in an agent run        *)
(* (pi-rpc-compaction-compat.ts), and tells the runner over the pipe what  *)
(* it did; the runner accepts one well-formed start and one well-formed    *)
(* end (pi-rpc-runner.ts) and takes anything else for a policy violation.  *)
(***************************************************************************)
EXTENDS Integers, Sequences

CONSTANTS
    MaxTurns,           \* bound: turns of the agent run
    MaxCompactions      \* policy.maxCompactions, which the qualified policy fixes at 1

CompactionBounds == MaxTurns \in Nat /\ MaxCompactions = 1

VARIABLES
    turns,      \* turns that ended
    worker,     \* the compactor of the child
    pipe,       \* events on their way to the runner
    auditor,    \* what the runner made of them
    aborted     \* the runner asked the child to abort

compactionVars == <<turns, worker, pipe, auditor, aborted>>

Codes == {"transient", "permanent", "protocol", "context_invalid", "drift"}
Outcomes == Codes \union {"completed"}

\* projectPiRpcEvent keeps these fields; `by` is the source, `large` the threshold.
Started(by, count, attempts, large) ==
    [type |-> "start", by |-> by, count |-> count, attempts |-> attempts, large |-> large, outcome |-> "none"]
Ended(count, attempts, outcome) ==
    [type |-> "end", by |-> "harness", count |-> count, attempts |-> attempts, large |-> TRUE, outcome |-> outcome]
Settled == [Started("pi", 0, 0, FALSE) EXCEPT !.type = "settled"]

NoReceipt == [outcome |-> "none", attempts |-> 0]

Event ==
    [type : {"start", "settled"}, by : {"pi", "harness"}, count : {0, 1}, attempts : {0, 1}, large : BOOLEAN, outcome : {"none"}]
    \union [type : {"end"}, by : {"harness"}, count : {1}, attempts : {0, 1, 2}, large : {TRUE}, outcome : Outcomes]

Worker == [step : {"idle", "prepare", "request", "apply", "thrown", "settled"}, count : {0, 1}, attempts : {0, 1, 2},
           replaced : BOOLEAN, sent : Outcomes \union {"none"}, foreign : BOOLEAN]
Auditor == [phase : {"idle", "started", "completed"}, receipt : [outcome : Outcomes \union {"none"}, attempts : {0, 1, 2}],
            failure : Codes \union {"none"}, violation : BOOLEAN, settled : BOOLEAN]

CompactionTypeOK ==
    turns \in 0..MaxTurns /\ aborted \in BOOLEAN /\ pipe \in Seq(Event) /\ worker \in Worker /\ auditor \in Auditor

CompactionInit ==
    /\ turns = 0 /\ pipe = <<>> /\ aborted = FALSE
    /\ worker = [step |-> "idle", count |-> 0, attempts |-> 0, replaced |-> FALSE, sent |-> "none", foreign |-> FALSE]
    /\ auditor = [phase |-> "idle", receipt |-> NoReceipt, failure |-> "none", violation |-> FALSE, settled |-> FALSE]

-----------------------------------------------------------------------------
(* The child.                                                               *)

ByCompactor == UNCHANGED <<auditor, aborted>>
Stage(step) == worker.step = step

\* The end that failed: the hook throws, and with it the agent run.
Throws(outcome, events) ==
    /\ worker' = [worker EXCEPT !.step = "thrown", !.sent = outcome]
    /\ pipe' = pipe \o events

\* prepareNextTurnWithContext: a known window, known usage, and 75 % of it used.
Due(large) == large /\ worker.count < MaxCompactions

NextTurn ==
    /\ Stage("idle") /\ turns < MaxTurns /\ turns' = turns + 1
    /\ \E large \in BOOLEAN :
        worker' = IF Due(large) THEN [worker EXCEPT !.step = "prepare", !.count = @ + 1, !.attempts = 0] ELSE worker
    /\ UNCHANGED pipe /\ ByCompactor

\* prepareCompaction, a private function of Pi.
Prepares ==
    /\ Stage("prepare")
    /\ \/ /\ worker' = [worker EXCEPT !.step = "request"]
          /\ pipe' = Append(pipe, Started("harness", worker.count, 1, TRUE))
       \/ \E code \in {"context_invalid", "protocol"} :
            Throws(code, <<Started("harness", worker.count, 0, TRUE), Ended(worker.count, 0, code)>>)
    /\ UNCHANGED turns /\ ByCompactor

Asked == worker.attempts + 1

\* Mutant: any failure is asked again.
MayAskAgain_Always(failure) == TRUE

\* transientSummaryFailure: never after an abort; once.
MayAskAgain(failure) == failure = "transient" /\ Asked = 1

RequestsSummary ==
    /\ Stage("request")
    /\ \/ worker' = [worker EXCEPT !.step = "apply", !.attempts = Asked] /\ UNCHANGED pipe
       \/ \E failure \in {"permanent"} \union {t \in {"transient"} : ~aborted} :
            IF MayAskAgain(failure)
              THEN worker' = [worker EXCEPT !.attempts = Asked] /\ UNCHANGED pipe
              ELSE /\ worker' = [worker EXCEPT !.step = "thrown", !.attempts = Asked, !.sent = failure]
                   /\ pipe' = Append(pipe, Ended(worker.count, Asked, failure))
    /\ UNCHANGED turns /\ ByCompactor

\* The summary replaces the history before the end is reported; a reply that is
\* malformed is found before or after that.
AppliesSummary ==
    /\ Stage("apply")
    /\ \/ /\ worker' = [worker EXCEPT !.step = "idle", !.replaced = TRUE, !.sent = "completed"]
          /\ pipe' = Append(pipe, Ended(worker.count, worker.attempts, "completed"))
       \/ \E code \in {"protocol", "drift"}, replaced \in BOOLEAN :
            /\ worker' = [worker EXCEPT !.step = "thrown", !.replaced = replaced, !.sent = code]
            /\ pipe' = Append(pipe, Ended(worker.count, worker.attempts, code))
    /\ UNCHANGED turns /\ ByCompactor

AgentSettled ==
    /\ worker.step \in {"idle", "thrown"}
    /\ worker' = [worker EXCEPT !.step = "settled"] /\ pipe' = Append(pipe, Settled)
    /\ UNCHANGED turns /\ ByCompactor

\* A compaction of Pi's own, which was switched off.
CompactsByItself ==
    /\ Stage("idle") /\ ~worker.foreign
    /\ worker' = [worker EXCEPT !.foreign = TRUE]
    /\ \E large \in BOOLEAN : pipe' = Append(pipe, Started("pi", 1, 1, large))
    /\ UNCHANGED turns /\ ByCompactor

-----------------------------------------------------------------------------
(* The runner.                                                              *)

Protocol(a) == [a EXCEPT !.phase = "completed", !.failure = "protocol", !.violation = TRUE]

Provider == {"transient", "permanent"}

\* acceptControlledCompactionEvent.
AcceptsEvent(a, e) ==
    IF ~(e.by = "harness" /\ e.count = 1 /\ e.large) THEN Protocol(a)
    ELSE IF e.type = "start"
      THEN IF a.phase = "idle" /\ e.attempts =< 1 THEN [a EXCEPT !.phase = "started"] ELSE Protocol(a)
    ELSE IF a.phase # "started" \/ e.attempts > 2 THEN Protocol(a)
    ELSE IF e.attempts < 1 /\ e.outcome \in Provider \union {"completed"} THEN Protocol(a)
    ELSE [a EXCEPT !.phase = "completed", !.receipt = [outcome |-> e.outcome, attempts |-> e.attempts],
                   !.failure = IF e.outcome = "completed" THEN @ ELSE e.outcome,
                   !.violation = @ \/ e.outcome # "completed"]

\* agent_settled inside a compaction.
SettlesWell(a) == [(IF a.phase = "started" THEN [a EXCEPT !.failure = "protocol", !.violation = TRUE] ELSE a)
                     EXCEPT !.settled = TRUE]

RunnerHears ==
    /\ pipe # <<>> /\ pipe' = Tail(pipe)
    /\ auditor' = IF Head(pipe).type = "settled" THEN SettlesWell(auditor) ELSE AcceptsEvent(auditor, Head(pipe))
    /\ UNCHANGED <<turns, worker, aborted>>

RunnerAborts == ~aborted /\ aborted' = TRUE /\ UNCHANGED <<turns, worker, pipe, auditor>>

CompactionNext ==
    \/ NextTurn \/ Prepares \/ RequestsSummary \/ AppliesSummary \/ AgentSettled \/ CompactsByItself
    \/ RunnerHears \/ RunnerAborts

-----------------------------------------------------------------------------

\* pi-rpc-compaction-compat.ts and pi-rpc-runner.ts agree on the protocol: what the
\* runner records of a compaction is what the child did, with its outcome and its
\* number of requests, and it finds no fault of its own with it.
RunnerRecordsCompaction ==
    ~worker.foreign =>
        /\ auditor.receipt # NoReceipt =>
             auditor.receipt = [outcome |-> worker.sent, attempts |-> worker.attempts]
        /\ auditor.violation => auditor.failure = worker.sent /\ worker.sent # "completed"

\* A run that settles with a history that was replaced says so: it has a receipt of a
\* completed compaction, or it is a violation.
NoSilentCompaction ==
    auditor.settled /\ worker.replaced => auditor.receipt.outcome = "completed" \/ auditor.violation
-----------------------------------------------------------------------------
(* Why they hold: the inductive invariant.                                  *)

Working == worker.step \in {"request", "apply"}
First(type) == Len(pipe) > 0 /\ pipe[1].type = type
EndWaits == \E i \in 1..Len(pipe) : pipe[i].type = "end"

CompactorSteps ==
    /\ Stage("prepare") => worker.attempts = 0
    /\ Stage("request") => worker.attempts \in {0, 1}
    /\ Stage("apply") => worker.attempts \in {1, 2}
    /\ Working \/ Stage("prepare") => worker.count = 1 /\ worker.sent = "none"
    /\ worker.count = 0 => worker.sent = "none" /\ worker.step \in {"idle", "settled"}
    /\ Stage("idle") /\ worker.count = 1 => worker.sent = "completed"
    /\ Stage("thrown") => worker.sent \in Codes
    /\ worker.sent \in Provider \union {"completed"} => worker.attempts > 0
    /\ worker.replaced => worker.sent # "none"

\* agent_settled is the last the runner hears.
SettledIsLast ==
    /\ \A i \in 1..Len(pipe) : pipe[i].type = "settled" => i = Len(pipe) /\ Stage("settled")
    /\ auditor.settled => Len(pipe) = 0 /\ Stage("settled")

\* A history that was replaced is on record, or its end is on the way.
EndIsTold == worker.replaced => EndWaits \/ auditor.receipt.outcome = "completed" \/ auditor.violation

\* What is on the way is what the runner is about to accept.
PipeAgrees ==
    /\ \A i \in 1..Len(pipe) :
        /\ pipe[i].type # "settled" => pipe[i].by = "harness" /\ pipe[i].count = 1 /\ pipe[i].large
        /\ pipe[i].type = "start" => i = 1 /\ auditor.phase = "idle" /\ pipe[i].attempts \in {0, 1}
        /\ pipe[i].type = "end" =>
             /\ pipe[i].outcome = worker.sent /\ pipe[i].attempts = worker.attempts /\ worker.sent # "none"
             /\ IF i = 1 THEN auditor.phase = "started" ELSE i = 2 /\ First("start")
    /\ Working => \/ auditor.phase = "idle" /\ Len(pipe) = 1 /\ First("start")
                  \/ auditor.phase = "started" /\ Len(pipe) = 0
    /\ auditor.phase = "started" /\ ~Working => First("end")
    /\ First("start") /\ ~Working => Len(pipe) > 1 /\ pipe[2].type = "end"
    /\ Stage("prepare") \/ (Stage("idle") /\ worker.count = 0) => auditor.phase = "idle" /\ Len(pipe) = 0

AuditAgrees ==
    /\ auditor.receipt # NoReceipt =>
         worker.sent # "none" /\ auditor.receipt = [outcome |-> worker.sent, attempts |-> worker.attempts]
    /\ auditor.violation => auditor.failure = worker.sent /\ worker.sent \in Codes

CompactionInv ==
    /\ CompactionTypeOK /\ CompactorSteps /\ SettledIsLast /\ EndIsTold
    /\ ~worker.foreign => PipeAgrees /\ AuditAgrees
=============================================================================
