-------------------------- MODULE ControllerLease --------------------------
(***************************************************************************)
(* controller-lease.json: the file that lets one Controller process at a   *)
(* time run ticks on a state directory.  Acquiring and releasing it are    *)
(* sequences of file operations, and processes die at any of them.         *)
(***************************************************************************)
EXTENDS Integers, FiniteSets

CONSTANT Controller     \* Controller processes, each started at most once

VARIABLES
    lease,      \* the file: who created it, and whether its content is written
    at,         \* where each process is
    tries,      \* how often it has tried to create the file
    owner,      \* the lease content it last read
    swapped     \* history: a process removed another lease than it had judged

leaseVars == <<lease, at, tries, owner, swapped>>

Nobody == "nobody"
ASSUME NobodyAssumption == Nobody \notin Controller

NoLease == [by |-> Nobody, written |-> FALSE]

Point == {"new", "open", "write", "read", "judge", "reread", "remove", "owner",
          "release", "unlink", "failed", "exited", "dead"}
Living == Point \ {"new", "failed", "exited", "dead"}

LeaseTypeOK ==
    /\ lease \in [by : Controller \union {Nobody}, written : BOOLEAN]
    /\ at \in [Controller -> Point]
    /\ tries \in [Controller -> 0..2]
    /\ owner \in [Controller -> Controller \union {Nobody}]
    /\ swapped \in BOOLEAN
    /\ lease.written => lease.by # Nobody
    /\ \A c \in Controller : at[c] \in {"judge", "reread", "remove"} <=> owner[c] # Nobody

LeaseInit ==
    /\ lease = NoLease /\ swapped = FALSE
    /\ at = [c \in Controller |-> "new"] /\ tries = [c \in Controller |-> 0]
    /\ owner = [c \in Controller |-> Nobody]

Moves(c, from, to) == at[c] = from /\ at' = [at EXCEPT ![c] = to]

\* What it read is a local of one attempt.
ForgetsOwner(c) == owner' = [owner EXCEPT ![c] = Nobody]

-----------------------------------------------------------------------------
(* acquireControllerLease.                                                  *)

Start(c) ==
    /\ Moves(c, "new", "open")
    /\ UNCHANGED <<lease, tries, owner, swapped>>

\* openSync(path, "wx"); after two attempts acquiring gives up.
Create(c) ==
    /\ tries[c] < 2 /\ lease = NoLease
    /\ Moves(c, "open", "write")
    /\ lease' = [by |-> c, written |-> FALSE]
    /\ tries' = [tries EXCEPT ![c] = @ + 1]
    /\ UNCHANGED <<owner, swapped>>

AlreadyExists(c) ==
    /\ tries[c] < 2 /\ lease # NoLease
    /\ Moves(c, "open", "read")
    /\ tries' = [tries EXCEPT ![c] = @ + 1]
    /\ UNCHANGED <<lease, owner, swapped>>

ChangedWhileAcquiring(c) ==
    /\ tries[c] = 2 /\ Moves(c, "open", "failed")
    /\ UNCHANGED <<lease, tries, owner, swapped>>

\* The write goes to the file that was created, also when it was removed since.
WriteLease(c) ==
    /\ Moves(c, "write", "owner")
    /\ lease' = IF lease.by = c THEN [lease EXCEPT !.written = TRUE] ELSE lease
    /\ tries' = [tries EXCEPT ![c] = 0]
    /\ UNCHANGED <<owner, swapped>>

\* A failed write removes the file at the path, whosever it is.
WriteFails(c) ==
    /\ Moves(c, "write", "failed")
    /\ lease' = NoLease
    /\ swapped' = (swapped \/ lease.by \notin {c, Nobody})
    /\ UNCHANGED <<tries, owner>>

\* A missing or unwritten lease is an error, here and when it is read again.
ReadLease(c) ==
    /\ IF lease.written THEN Moves(c, "read", "judge") ELSE Moves(c, "read", "failed")
    /\ owner' = [owner EXCEPT ![c] = IF lease.written THEN lease.by ELSE @]
    /\ UNCHANGED <<lease, tries, swapped>>

\* Mutant: the owner's pid is not looked up.
Judge_Nothing(c) ==
    /\ Moves(c, "judge", "reread")
    /\ UNCHANGED <<lease, tries, owner, swapped>>

\* A living owner holds the lease; so does a stranger who has a dead one's pid.
Judge(c) ==
    /\ \/ Moves(c, "judge", "failed") /\ ForgetsOwner(c)
       \/ Moves(c, "judge", "reread") /\ at[owner[c]] \notin Living /\ UNCHANGED owner
    /\ UNCHANGED <<lease, tries, swapped>>

Reread(c) ==
    /\ IF lease.written /\ lease.by = owner[c]
         THEN Moves(c, "reread", "remove") /\ UNCHANGED owner
         ELSE Moves(c, "reread", IF lease.written THEN "open" ELSE "failed") /\ ForgetsOwner(c)
    /\ UNCHANGED <<lease, tries, swapped>>

\* unlinkSync(path): whatever is there by now.
RemoveDead(c) ==
    /\ Moves(c, "remove", "open") /\ ForgetsOwner(c)
    /\ lease' = NoLease
    /\ swapped' = (swapped \/ lease.by \notin {owner[c], Nobody})
    /\ UNCHANGED tries

-----------------------------------------------------------------------------
(* release, and death.                                                      *)

Stop(c) ==
    /\ Moves(c, "owner", "release")
    /\ UNCHANGED <<lease, tries, owner, swapped>>

CheckRelease(c) ==
    /\ IF lease = NoLease \/ ~lease.written \/ lease.by # c
         THEN Moves(c, "release", "exited") ELSE Moves(c, "release", "unlink")
    /\ UNCHANGED <<lease, tries, owner, swapped>>

Release(c) ==
    /\ Moves(c, "unlink", "exited")
    /\ lease' = NoLease
    /\ swapped' = (swapped \/ lease.by \notin {c, Nobody})
    /\ UNCHANGED <<tries, owner>>

LeaseCrash(c) ==
    /\ at[c] \in Living /\ at' = [at EXCEPT ![c] = "dead"]
    /\ ForgetsOwner(c)
    /\ UNCHANGED <<lease, tries, swapped>>

-----------------------------------------------------------------------------

Acquire(c) ==
    \/ Start(c) \/ Create(c) \/ AlreadyExists(c) \/ ChangedWhileAcquiring(c) \/ WriteLease(c)
    \/ WriteFails(c) \/ ReadLease(c) \/ Judge(c) \/ Reread(c) \/ RemoveDead(c)

ReleaseSteps(c) == Stop(c) \/ CheckRelease(c) \/ Release(c)

LeaseNext == \E c \in Controller : Acquire(c) \/ ReleaseSteps(c) \/ LeaseCrash(c)

LeaseSpec == LeaseInit /\ [][LeaseNext]_leaseVars

-----------------------------------------------------------------------------

\* Processes that take themselves for the one Controller.
Owners == {c \in Controller : at[c] \in {"owner", "release", "unlink"}}

\* "Excludes concurrent run/tick processes before either can perform an external
\* effect": what the lease is for.
MutualExclusion == \A c, d \in Owners : c = d

\* It holds as long as nobody removes a lease that was created after the dead
\* one it had judged: no other path through acquiring, failing, dying and
\* releasing makes two owners.
ExclusiveUnlessSwapped == ~swapped => MutualExclusion

\* Why: whoever was judged dead stays dead, so that without a swap the file at
\* the path is the owner's own.
LeaseInv ==
    /\ lease.by # Nobody => at[lease.by] # "new"
    /\ \A c \in Controller :
        /\ owner[c] # Nobody => at[owner[c]] # "new"
        /\ at[c] \in {"reread", "remove"} => at[owner[c]] \notin Living
        /\ ~swapped /\ c \in Owners => lease = [by |-> c, written |-> TRUE]
        /\ ~swapped /\ at[c] = "write" => lease = [by |-> c, written |-> FALSE]

=============================================================================
