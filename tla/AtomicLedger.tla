---------------------------- MODULE AtomicLedger ----------------------------
(***************************************************************************)
(* What the ledger promises its writers (Controllers and operator commands *)
(* are processes of their own): whoever loaded it may replace it once, in  *)
(* one step, if the active Job still has the revision that was loaded.     *)
(***************************************************************************)
EXTENDS Integers

CONSTANTS
    Writer,     \* processes that load and save
    MaxJobs,    \* bound: Jobs archived
    MaxRev      \* bound: revisions of one Job

VARIABLES
    state,      \* the ledger
    holders,    \* writers that loaded it and have not saved
    loaded      \* what each of them loaded

\* `archived` counts terminalJobs; `rev` is activeJob.revision, NoJob for null.
NoJob  == -1
Ledger == [archived : 0..MaxJobs, rev : NoJob..MaxRev]
Empty  == [archived |-> 0, rev |-> NoJob]

\* What a handler makes of the ledger it loaded: a Job is selected, evolved or
\* archived.
Evolutions(l) ==
    IF l.rev = NoJob
      THEN {e \in {[l EXCEPT !.rev = 0]} : l.archived < MaxJobs}
      ELSE {e \in {[l EXCEPT !.rev = @ + 1]} : l.rev < MaxRev}
             \union {e \in {[archived |-> l.archived + 1, rev |-> NoJob]} : l.archived < MaxJobs}

\* The CAS compares revisions.
Unchanged(l, current) == current.rev = l.rev

Init == state = Empty /\ holders = {} /\ loaded = [w \in Writer |-> Empty]

Load(w) ==
    /\ w \notin holders /\ holders' = holders \union {w}
    /\ loaded' = [loaded EXCEPT ![w] = state]
    /\ UNCHANGED state

\* A writer saves at most once what it made of one load, or lets it go.
LetsGo(w) ==
    /\ w \in holders /\ holders' = holders \ {w}
    /\ loaded' = [loaded EXCEPT ![w] = Empty]

Save(w) ==
    /\ LetsGo(w)
    /\ Unchanged(loaded[w], state)
    /\ state' \in Evolutions(loaded[w])

Drop(w) == LetsGo(w) /\ UNCHANGED state

Next == \E w \in Writer : Load(w) \/ Save(w) \/ Drop(w)

Spec == Init /\ [][Next]_<<state, holders, loaded>>
=============================================================================
