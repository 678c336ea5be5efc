--------------------------- MODULE ReviewerEvidence ---------------------------
(***************************************************************************)
(* The Reviewer Attempts of a Job and the evidence they pass on: reviewer- *)
(* tools.js, the extension a Reviewer's two axes report to, its checkpoint *)
(* files (one private directory per Attempt, each file published once) and *)
(* their reuse by the Attempt that retries: attempt-preparation, reviewer- *)
(* checkpoints and GitCliAdapter.  What a checkpoint is bound to besides   *)
(* its Attempt (HEAD, task, provider, model, resources) is its context.    *)
(***************************************************************************)
EXTENDS Naturals, Sequences, FiniteSets

CONSTANTS
    MaxReviews,     \* bound: Reviewer Attempts
    MaxContexts,    \* bound: contexts
    MaxSpoils       \* bound: files that are spoiled

EvidenceBounds == {MaxReviews, MaxSpoils} \subseteq Nat /\ MaxContexts \in Nat \ {0}

VARIABLES
    reviews,    \* the Reviewer Attempts in the ledger
    files,      \* what each has published
    reviewer,   \* the extension's memory, in the last Attempt
    actual      \* history: what the validation and the axes of each Attempt really came to

evidenceVars == <<reviews, files, reviewer, actual>>

Axes == {"Standards", "Spec"}
Stages == Axes \union {"validation", "preflight", "final"}
Verdicts == {"pass", "changes"}
NoFile == "none"

NoReviewer == [preflight |-> "none", axes |-> [x \in Axes |-> "none"], launched |-> [x \in Axes |-> 0],
               retry |-> {}, flying |-> {}, proposal |-> "none", exceeded |-> FALSE]

Proofs == Axes \union {"validation"}    \* the stages that come to a verdict of their own
Review == [context : Nat, inputs : SUBSET [stage : Stages, of : Nat], phase : {"prepared", "running", "settled"},
           receipt : [status : Verdicts \union {"none"}, of : Nat], result : Verdicts \union {"none", "blocked"}]

Checkpoints == [1..MaxReviews -> [Stages -> Verdicts \union {NoFile, "spoiled", "blocked"}]]
Memory == [preflight : {"none", "ok", "failed"}, axes : [Axes -> Verdicts \union {"none"}], launched : [Axes -> Nat],
           retry : SUBSET Axes, flying : SUBSET Axes, proposal : Verdicts \union {"none"}, exceeded : BOOLEAN]

EvidenceTypeOK ==
    /\ reviews \in Seq(Review) /\ Len(reviews) =< MaxReviews
    /\ files \in Checkpoints /\ reviewer \in Memory
    /\ actual \in [1..MaxReviews -> [Proofs -> Verdicts \union {"none"}]]

EvidenceInit ==
    /\ reviews = <<>> /\ reviewer = NoReviewer
    /\ files = [a \in 1..MaxReviews |-> [s \in Stages |-> NoFile]]
    /\ actual = [a \in 1..MaxReviews |-> [s \in Proofs |-> "none"]]

-----------------------------------------------------------------------------
(* The Controller.                                                          *)

Last == Len(reviews)
Current == reviews[Last]
Phase(phase) == reviews # <<>> /\ Current.phase = phase
Updates(review) == reviews' = [reviews EXCEPT ![Last] = review]
Publishes(stage, verdict) == files' = [files EXCEPT ![Last][stage] = verdict]

\* privateImmutableFile and assertReviewerCheckpoint: a file that was changed grants nothing.
Valid(a, stage) == files[a][stage] \notin {NoFile, "spoiled"}
Intact(inputs) == \A i \in inputs : Valid(i.of, i.stage)
Consumed == UNION {reviews[a].inputs : a \in DOMAIN reviews}

\* Mutant: a checkpoint is reused whatever it was made for.
Compatible_Always(source, context) == TRUE

\* reviewerCheckpointIsCompatible.
Compatible(source, context) == reviews[source].context = context

\* reusableCheckpoint, and found by no Attempt before.
Found(source, context) ==
    {i \in [stage : Stages, of : {source}] :
        Valid(source, i.stage) /\ Compatible(source, context) /\ i \notin Consumed
        /\ (i.stage = "final" => files[source].final \in Verdicts)}

Has(inputs, stage) == \E i \in inputs : i.stage = stage

\* findReusableReviewerCheckpoints: a preflight goes with the receipt it names, a final
\* result with the validation and both axes.
Reusable(source, context) ==
    LET found == Found(source, context)
    IN  {i \in found :
          /\ i.stage = "preflight" => Has(found, "validation") /\ reviews[source].receipt.of = source
          /\ i.stage = "final" => \A s \in Axes \union {"validation"} : Has(found, s)}

\* prepareAttempt; an approved recovery of a Reviewer names the Attempt it retries.  Contexts
\* are numbered as they come.
Prepares(context, recovers) ==
    /\ Last < MaxReviews /\ (reviews = <<>> \/ Phase("settled"))
    /\ recovers => Last > 0 /\ Current.result \notin Verdicts
    /\ context =< 1 + Cardinality({reviews[a].context : a \in DOMAIN reviews})
    /\ LET inputs == IF recovers THEN Reusable(Last, context) ELSE {}
       IN  reviews' = Append(reviews,
              [context |-> context, inputs |-> inputs, phase |-> "prepared", result |-> "none",
               receipt |-> IF Has(inputs, "validation") THEN [status |-> files[Last].validation, of |-> Last]
                           ELSE [status |-> "none", of |-> 0]])
    /\ UNCHANGED <<files, reviewer, actual>>

\* ensureReviewerValidation: see ReviewerValidation.
Validates(verdict) ==
    /\ Phase("prepared") /\ Current.receipt.of = 0
    /\ Updates([Current EXCEPT !.receipt = [status |-> verdict, of |-> Last]])
    /\ Publishes("validation", verdict) /\ actual' = [actual EXCEPT ![Last].validation = verdict]
    /\ UNCHANGED reviewer

\* readBoundValidationReceipt: the receipt the Attempt is bound to, by path and digest.
ReceiptHolds == Valid(Current.receipt.of, "validation")

\* verifyBoundReviewerCheckpoints, verifyBoundReviewerValidation and prepareReviewer.
Bound == Intact(Current.inputs) /\ ReceiptHolds

Settles(result) == Updates([Current EXCEPT !.phase = "settled", !.result = result])

Imported(stage) == Has(Current.inputs, stage)
SourceOf(stage) == (CHOOSE i \in Current.inputs : i.stage = stage).of
Input(stage) == IF Imported(stage) THEN files[SourceOf(stage)][stage] ELSE "none"
Complete(axes) == \A x \in Axes : axes[x] # "none"

\* The extension starts from the checkpoints that were imported.
StartsReviewer ==
    /\ Phase("prepared") /\ Current.receipt.of # 0 /\ Bound
    /\ Updates([Current EXCEPT !.phase = "running"])
    /\ reviewer' = [NoReviewer EXCEPT !.axes = [x \in Axes |-> Input(x)], !.proposal = Input("final")]
    /\ UNCHANGED <<files, actual>>

\* An integrity violation, an infrastructure error, a Reviewer that cannot be prepared.
BlocksReviewer == Phase("prepared") /\ Settles("none") /\ UNCHANGED <<files, reviewer, actual>>

\* The Reviewer ends its turn, or its process does; what is in flight is lost.
EndsTurn == Phase("running") /\ Settles("none") /\ reviewer' = NoReviewer /\ UNCHANGED <<files, actual>>

\* A hand on the private directory.
Spoils(a, stage) ==
    /\ a \in DOMAIN reviews /\ Valid(a, stage)
    /\ Cardinality({f \in (1..Last) \X Stages : files[f[1]][f[2]] = "spoiled"}) < MaxSpoils
    /\ files' = [files EXCEPT ![a][stage] = "spoiled"] /\ UNCHANGED <<reviews, reviewer, actual>>

-----------------------------------------------------------------------------
(* The extension.                                                           *)

Running == Phase("running")

\* aggregateFinalResult.
Aggregate(axes, validation) == IF "changes" \in {axes["Standards"], axes["Spec"], validation} THEN "changes" ELSE "pass"

\* budgetedToolResult: an answer, of any tool, that does not fit the budget ends the review;
\* only blocked or failed can be submitted then.
Overflows ==
    /\ Running /\ ~reviewer.exceeded /\ reviewer' = [reviewer EXCEPT !.exceeded = TRUE]
    /\ UNCHANGED <<reviews, files, actual>>

PreflightFails == reviewer' = [reviewer EXCEPT !.preflight = "failed"]

\* publishCheckpoint links a file, and throws when it cannot: what was published before stays.
MayPublish(before, after) == files' \in {before, after}

\* review_preflight; a file it cannot publish fails it, and it answers the same ever after.
Preflights ==
    /\ Running /\ ~reviewer.exceeded /\ reviewer.preflight = "none"
    /\ LET axes     == reviewer.axes
           own      == IF Imported("preflight") THEN files ELSE [files EXCEPT ![Last].preflight = "pass"]
           proposal == IF Complete(axes) THEN Aggregate(axes, Current.receipt.status) ELSE reviewer.proposal
           final    == IF Complete(axes) /\ reviewer.proposal = "none"
                         THEN [own EXCEPT ![Last].final = proposal] ELSE own
       IN  \/ PreflightFails /\ MayPublish(files, own)
           \/ /\ ReceiptHolds
              /\ Complete(axes) /\ reviewer.proposal # "none" => proposal = reviewer.proposal
              /\ files' = final
              /\ reviewer' = [reviewer EXCEPT !.preflight = "ok", !.proposal = proposal]
    /\ UNCHANGED <<reviews, actual>>

\* reviewAxisTasks: the fixed tasks, one per axis, and nothing else.
Calls == (SUBSET Axes) \ {{}}

\* reviewerAxisStartupAllowed: Standards first, or both at once; only what is missing.
StartupAllowed(axes) ==
    /\ reviewer.axes["Standards"] = "none" => "Standards" \in axes
    /\ \A x \in axes : reviewer.axes[x] = "none"

\* tool_call of `subagent`: each missing axis once, and once more when it may be retried.
Launches(axes) ==
    /\ Running /\ ~reviewer.exceeded /\ reviewer.preflight = "ok" /\ StartupAllowed(axes)
    /\ \A x \in axes : reviewer.launched[x] = 0 \/ x \in reviewer.retry
    /\ reviewer' = [reviewer EXCEPT !.flying = axes, !.retry = @ \ axes,
                                    !.launched = [x \in Axes |-> IF x \in axes THEN @[x] + 1 ELSE @[x]]]
    /\ UNCHANGED <<reviews, files, actual>>

\* projectReviewAxes: an axis reports a verdict in the exact form, or fails.
Outcomes == Verdicts \union {"retryable", "failed"}

\* reviewAxisFailureProjection: a network failure, a timeout or an empty answer, the first time.
MayRetry(x, outcome) == outcome = "retryable" /\ reviewer.launched[x] = 1

\* tool_result: projectReviewAxes, a checkpoint for each axis that reported (an axis whose file
\* cannot be published has failed), and the final result once both did.
AxesReport ==
    /\ Running /\ reviewer.flying # {}
    /\ \E outcome \in [reviewer.flying -> Outcomes] :
        LET reported == {x \in reviewer.flying : outcome[x] \in Verdicts}
            axes     == [x \in Axes |-> IF x \in reported THEN outcome[x] ELSE reviewer.axes[x]]
            ends     == Complete(axes) /\ reviewer.proposal = "none"
            proposal == IF ends THEN Aggregate(axes, Current.receipt.status) ELSE reviewer.proposal
            own      == [files EXCEPT ![Last] = [s \in Stages |-> IF s \in reported THEN outcome[s] ELSE @[s]]]
            final    == IF ends /\ own[Last].final = NoFile THEN [own EXCEPT ![Last].final = proposal] ELSE own
        IN  /\ MayPublish(own, final)
            /\ actual' = [actual EXCEPT ![Last] =
                            [s \in DOMAIN @ |-> IF s \in reported THEN outcome[s] ELSE @[s]]]
            /\ reviewer' = [reviewer EXCEPT
                    !.axes = axes, !.flying = {}, !.proposal = proposal,
                    !.retry = @ \union {x \in reviewer.flying : MayRetry(x, outcome[x])}]
    /\ UNCHANGED reviews

\* review_submit of pass or changes: nothing but the proposal, from both axes and the receipt.
MaySubmit(status) ==
    /\ ~reviewer.exceeded /\ Complete(reviewer.axes) /\ reviewer.preflight = "ok"
    /\ ReceiptHolds
    /\ status = Aggregate(reviewer.axes, Current.receipt.status) /\ status = reviewer.proposal

\* The result is there once and for all; what the Reviewer does after it changes nothing.
Submits(status) ==
    /\ Running /\ MaySubmit(status)
    /\ Settles(status) /\ reviewer' = NoReviewer /\ UNCHANGED <<files, actual>>

\* review_submit of blocked or failed leaves a final checkpoint first, unless there is a
\* proposal; the result itself may fail, and then the checkpoint is there.
SubmitsBlocked ==
    /\ Running /\ (reviewer.proposal # "none" \/ files[Last].final = NoFile)
    /\ IF reviewer.proposal = "none" THEN Publishes("final", "blocked") ELSE UNCHANGED files
    /\ \/ Settles("blocked") /\ reviewer' = NoReviewer
       \/ UNCHANGED <<reviews, reviewer>>
    /\ UNCHANGED actual

EvidenceNext ==
    \/ \E context \in 1..MaxContexts, recovers \in BOOLEAN : Prepares(context, recovers)
    \/ StartsReviewer \/ BlocksReviewer \/ EndsTurn \/ Overflows \/ Preflights \/ AxesReport \/ SubmitsBlocked
    \/ \E verdict \in Verdicts : Validates(verdict) \/ Submits(verdict)
    \/ \E axes \in Calls : Launches(axes)
    \/ \E a \in 1..MaxReviews, stage \in Stages : Spoils(a, stage)

-----------------------------------------------------------------------------

\* Where Attempt a has a stage from.
Origin(a, stage) ==
    IF Has(reviews[a].inputs, stage) THEN (CHOOSE i \in reviews[a].inputs : i.stage = stage).of ELSE a

EarnedBy(a, result) ==
    LET validation == actual[reviews[a].receipt.of].validation
        axes       == [x \in Axes |-> actual[Origin(a, x)][x]]
    IN  /\ result = Aggregate(axes, validation)
        /\ \A o \in {reviews[a].receipt.of, Origin(a, "Standards"), Origin(a, "Spec")} :
            reviews[o].context = reviews[a].context
        /\ \A x \in Axes : axes[x] \in Verdicts
        /\ validation \in Verdicts

\* A pass or a request for changes is what both axes and the validation really came to, each
\* in this Attempt or in the one it retries, for the very same context; whatever was lost,
\* retried, spoiled or imported ("only imports checkpoints whose whole identity matches").
VerdictIsEarned == \A a \in DOMAIN reviews : reviews[a].result \in Verdicts => EarnedBy(a, reviews[a].result)

\* A Reviewer that has all its evidence can submit it: the final result it was given or
\* made is the one its axes and its validation call for.
ProposalMatches ==
    Running /\ reviewer.preflight = "ok" /\ Complete(reviewer.axes) /\ reviewer.proposal # "none" =>
        reviewer.proposal = Aggregate(reviewer.axes, Current.receipt.status)
-----------------------------------------------------------------------------
(* Why they hold: the inductive invariant.                                  *)

\* A checkpoint that was not spoiled says what its stage came to.
FilesTrue ==
    \A a \in 1..MaxReviews, s \in Proofs : Valid(a, s) => files[a][s] = actual[a][s] /\ actual[a][s] \in Verdicts

\* A receipt, own or imported, is of a validation for the same context.
ReceiptsTrue ==
    \A a \in 1..Last :
        LET receipt == reviews[a].receipt
        IN  receipt.of # 0 =>
              /\ receipt.of \in {a, a - 1} /\ reviews[receipt.of].context = reviews[a].context
              /\ receipt.status \in Verdicts /\ receipt.status = actual[receipt.of].validation

\* What is imported is of the Attempt before, for the same context.
InputsTrue ==
    \A a \in 1..Last : \A i \in reviews[a].inputs :
        /\ i.of # 0 /\ i.of = a - 1 /\ reviews[a - 1].context = reviews[a].context
        /\ i.stage \in Axes => actual[a - 1][i.stage] \in Verdicts
        /\ i.stage = "final" =>
             files[a - 1].final \in Verdicts \union {"spoiled"} /\ \A x \in Axes : Has(reviews[a].inputs, x)

\* The extension knows of an axis what it came to, and proposes what it knows.
MemoryTrue ==
    Running =>
        /\ Current.receipt.of # 0
        /\ \A x \in Axes :
            /\ reviewer.axes[x] # "none" => reviewer.axes[x] = actual[Origin(Last, x)][x]
            /\ Imported(x) => reviewer.axes[x] # "none"
            /\ x \in reviewer.flying => reviewer.axes[x] = "none" /\ reviewer.preflight = "ok"
        /\ reviewer.proposal # "none" => Complete(reviewer.axes)
        /\ reviewer.preflight = "ok" /\ Complete(reviewer.axes) =>
             reviewer.proposal = Aggregate(reviewer.axes, Current.receipt.status)

ResultsSettled ==
    \A a \in 1..Last : reviews[a].result \in Verdicts => reviews[a].phase = "settled" /\ reviews[a].receipt.of # 0

EvidenceInv ==
    EvidenceTypeOK /\ FilesTrue /\ ReceiptsTrue /\ InputsTrue /\ MemoryTrue /\ ResultsSettled /\ VerdictIsEarned
=============================================================================
