------------------------------ MODULE Custody ------------------------------
(***************************************************************************)
(* Who writes a state directory: Controller processes that save only while *)
(* they own the lease, and operator commands that save without it.  Both   *)
(* go through the same ledger files, and any process may die at any of     *)
(* its file operations.                                                    *)
(***************************************************************************)
EXTENDS StateStore, ControllerLease

CONSTANT Operator       \* operator commands (`decide`, `approve`, ...)

ASSUME WriterAssumption ==
    Writer = Controller \union Operator /\ Controller \intersect Operator = {}

VARIABLE saver          \* history: who saved last

custodyVars == <<storeVars, leaseVars, saver>>

CustodyInit == StoreInit /\ LeaseInit /\ saver = Nobody

\* cli.ts `run`: a Controller ticks while it owns the lease.
ControllerTicks(c) ==
    /\ at[c] = "owner"
    /\ \/ Load(c) \/ OpenLock(c) \/ WriteTemp(c) \/ AppendAudit(c) \/ Unlock(c)
    /\ UNCHANGED <<leaseVars, saver>>

\* A save that throws ends the process by way of its finally blocks.
ControllerFails(c) ==
    /\ LockHeld(c) \/ GiveUp(c)
    /\ Stop(c)
    /\ UNCHANGED saver

OperatorDecides(o) ==
    /\ \/ Load(o) \/ OpenLock(o) \/ LockHeld(o) \/ WriteTemp(o) \/ GiveUp(o)
       \/ AppendAudit(o) \/ Unlock(o)
    /\ UNCHANGED <<leaseVars, saver>>

Saves(w) ==
    /\ w \in Controller => at[w] = "owner"
    /\ Rename(w) /\ saver' = w
    /\ UNCHANGED leaseVars

\* A Controller acquires, and between ticks stops and releases.
HoldsLease(c) ==
    /\ Acquire(c) \/ CheckRelease(c) \/ Release(c) \/ (step[c] = "idle" /\ Stop(c))
    /\ UNCHANGED <<storeVars, saver>>

Dies(w) ==
    /\ IF w \in Controller THEN LeaseCrash(w) ELSE UNCHANGED leaseVars
    /\ StoreCrash(w)
    /\ UNCHANGED saver

CustodyNext ==
    \/ \E c \in Controller : ControllerTicks(c) \/ ControllerFails(c) \/ HoldsLease(c)
    \/ \E o \in Operator : OperatorDecides(o)
    \/ \E w \in Writer : Saves(w) \/ Dies(w)
    \/ RemoveStaleLock /\ UNCHANGED <<leaseVars, saver>>

CustodySpec == CustodyInit /\ [][CustodyNext]_custodyVars

CustodyTypeOK == StoreTypeOK /\ LeaseTypeOK /\ saver \in Writer \union {Nobody}

\* What the lease adds to the compare-and-set: unless a lease was swapped, only
\* an operator's decision ever overtakes a tick, never another Controller's.
OnlyOperatorsOvertake ==
    ~swapped =>
        \A c \in Controller :
            at[c] = "owner" /\ step[c] \in {"loaded", "locked"} /\ state # loaded[c]
                => saver \in Operator

=============================================================================
