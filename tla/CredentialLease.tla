--------------------------- MODULE CredentialLease ---------------------------
(***************************************************************************)
(* credential-startup.ts: processes of any Attempt, Controller or Analyst  *)
(* that are about to authenticate with the same OAuth store take turns.    *)
(* The lease is a file; its holder rewrites it from a timer, and one that  *)
(* is both old and of a dead process is replaced, under a native lock, by  *)
(* a helper process that outlives whoever started it.                      *)
(***************************************************************************)
CONSTANTS
    Process,    \* processes that start up
    Nobody

ASSUME ProcessAssumption == Nobody \notin Process

VARIABLES
    lease,      \* the lease file: absent, torn (created, not written), or a record
    startup,    \* what each process does
    reclaims    \* helpers: who started one, and for whose lease

leaseVars == <<lease, startup, reclaims>>

Absent  == [owner |-> Nobody, state |-> "absent"]
Torn    == [owner |-> Nobody, state |-> "torn"]
Of(p)   == [owner |-> p, state |-> "fresh"]
Leases  == {Absent, Torn} \union [owner : Process, state : {"fresh", "old"}]
Reclaim == [by : Process, from : Process, awaited : BOOLEAN]

\* `faulty` is a holder one of whose heartbeats failed: it goes on until it stops.
StartupStage == {"idle", "acquiring", "creating", "reclaiming", "holding", "faulty", "failed", "dead"}

LeaseTypeOK ==
    /\ lease \in Leases
    /\ startup \in [Process -> StartupStage]
    /\ reclaims \subseteq Reclaim

LeaseInit == lease = Absent /\ startup = [p \in Process |-> "idle"] /\ reclaims = {}

-----------------------------------------------------------------------------

At(p, stage)   == startup[p] = stage
Goes(p, stage) == startup' = [startup EXCEPT ![p] = stage]
Alive(p)       == startup[p] # "dead"

\* Between the acquisition and stop.
Authenticates(p) == At(p, "holding") \/ At(p, "faulty")

\* processIsAlive and the age of the heartbeat, as acquireCredentialStartupLease and the
\* helper both judge them.
Stale == lease.state = "old" /\ ~Alive(lease.owner)

Acquires(p) == (At(p, "idle") \/ At(p, "failed")) /\ Goes(p, "acquiring") /\ UNCHANGED <<lease, reclaims>>

\* writeExclusive: the file is there before its text.
CreatesLease(p) ==
    /\ At(p, "acquiring") /\ lease = Absent
    /\ lease' = Torn /\ Goes(p, "creating") /\ UNCHANGED reclaims

\* A write that fails leaves the file with or without its text.
WritesLease(p) ==
    /\ At(p, "creating") /\ UNCHANGED reclaims
    /\ \/ lease' = Of(p) /\ Goes(p, "holding")
       \/ lease' \in {Torn, Of(p)} /\ Goes(p, "failed")

\* What is there is no lease: somebody else is writing it, or died doing so.
FindsTornLease(p) ==
    /\ At(p, "acquiring") /\ lease = Torn /\ Goes(p, "failed") /\ UNCHANGED <<lease, reclaims>>

\* The deadline, with a living owner or one whose heartbeat is recent.
TimesOut(p) ==
    /\ At(p, "acquiring") /\ lease.owner # Nobody /\ ~Stale
    /\ Goes(p, "failed") /\ UNCHANGED <<lease, reclaims>>

FindsStaleLease(p) ==
    /\ At(p, "acquiring") /\ Stale /\ Goes(p, "reclaiming")
    /\ reclaims' = reclaims \union {[by |-> p, from |-> lease.owner, awaited |-> TRUE]} /\ UNCHANGED lease

\* Mutant: the helper trusts what its parent saw.
StillStale_Trusted(h) == TRUE

\* replaceStaleLease: the lease is read again under the lock.
StillStale(h) == lease.owner = h.from /\ Stale

Reclaims(h) ==
    /\ h \in reclaims /\ reclaims' = reclaims \ {h}
    /\ lease' = IF StillStale(h) THEN Of(h.by) ELSE lease
    /\ startup' = IF ~(h.awaited /\ At(h.by, "reclaiming")) THEN startup
                  ELSE [startup EXCEPT ![h.by] = IF StillStale(h) THEN "holding" ELSE "acquiring"]

\* The helper waits for the lock longer than its parent waits for the helper.
AbandonsReclaim(p) ==
    /\ At(p, "reclaiming") /\ Goes(p, "failed")
    /\ reclaims' = {[h EXCEPT !.awaited = @ /\ h.by # p] : h \in reclaims} /\ UNCHANGED lease

\* heartbeat, from a timer that a busy process delays: a lease that cannot be read or
\* written, or is another's, is an error that stop will report.
Heartbeats(p) ==
    /\ Authenticates(p) /\ UNCHANGED reclaims
    /\ \/ lease.owner = p /\ lease' = Of(p) /\ UNCHANGED startup
       \/ Goes(p, "faulty") /\ UNCHANGED lease

LeaseAges == lease.state = "fresh" /\ lease' = [lease EXCEPT !.state = "old"] /\ UNCHANGED <<startup, reclaims>>

\* stop: the lease is read, and removed if it is one's own; after a failed heartbeat, or
\* when it cannot be read or removed, it stays where it is.
Releases(p) ==
    /\ Authenticates(p) /\ UNCHANGED reclaims
    /\ \/ At(p, "holding") /\ lease.owner = p /\ lease' = Absent /\ Goes(p, "idle")
       \/ Goes(p, "failed") /\ UNCHANGED lease

StartupDies(p) == Alive(p) /\ Goes(p, "dead") /\ UNCHANGED <<lease, reclaims>>

LeaseNext ==
    \/ \E p \in Process :
        \/ Acquires(p) \/ CreatesLease(p) \/ WritesLease(p) \/ FindsTornLease(p) \/ TimesOut(p)
        \/ FindsStaleLease(p) \/ AbandonsReclaim(p) \/ Heartbeats(p) \/ Releases(p) \/ StartupDies(p)
    \/ \E h \in reclaims : Reclaims(h)
    \/ LeaseAges

LeaseSpec == LeaseInit /\ [][LeaseNext]_leaseVars

-----------------------------------------------------------------------------

\* acquireCredentialStartupLease: the lease of a process that authenticates is its own,
\* however late its heartbeats, also if they fail, and whoever's helper reclaims, so no two processes
\* authenticate with the same store at once.
HolderOwnsLease == \A p \in Process : Authenticates(p) => lease.owner = p
=============================================================================
