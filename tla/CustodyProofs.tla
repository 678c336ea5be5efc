--------------------------- MODULE CustodyProofs ---------------------------
(***************************************************************************)
(* For any writers, Controllers, operators and bounds: the ledger files    *)
(* implement an atomic register, the lease excludes a second Controller    *)
(* unless it was swapped, and the composed system keeps both promises.     *)
(***************************************************************************)
EXTENDS Custody, TLAPS

USE StoreAssumption, AbsentAssumption, NobodyAssumption, WriterAssumption

-----------------------------------------------------------------------------
(* The ledger files.                                                       *)

\* What a handler makes of a ledger is a ledger.
LEMMA EvolutionTypes ==
    ASSUME NEW l \in Ledger
    PROVE  Register!Evolutions(l) \subseteq Ledger
BY DEF Ledger, Register!Ledger, Register!Evolutions, Register!NoJob

\* The empty ledger and the absent temporary file are of their types.
LEMMA EmptyTypes ==
    Empty \in Ledger /\ NoTemp \in Temp /\ Torn \in Temp /\ (\A l \in Ledger : Whole(l) \in Temp)
BY DEF Empty, Ledger, Register!Empty, Register!Ledger, Register!NoJob, NoTemp, Torn, Whole, Temp

\* Every step of load, save, death and repair keeps the files' types.
LEMMA StoreTypeStep == StoreTypeOK /\ [StoreNext]_storeVars => StoreTypeOK'
<1>. SUFFICES ASSUME StoreTypeOK, [StoreNext]_storeVars PROVE StoreTypeOK'
  OBVIOUS
<1>. USE EmptyTypes, EvolutionTypes DEF StoreTypeOK, Goes, Forgets, Unlocks, Step
<1>1. ASSUME NEW w \in Writer, Load(w) PROVE StoreTypeOK'
  BY <1>1 DEF Load
<1>2. ASSUME NEW w \in Writer, OpenLock(w) PROVE StoreTypeOK'
  BY <1>2 DEF OpenLock
<1>3. ASSUME NEW w \in Writer, LockHeld(w) PROVE StoreTypeOK'
  BY <1>3 DEF LockHeld
<1>4. ASSUME NEW w \in Writer, WriteTemp(w) PROVE StoreTypeOK'
  BY <1>4 DEF WriteTemp
<1>5. ASSUME NEW w \in Writer, GiveUp(w) PROVE StoreTypeOK'
  BY <1>5 DEF GiveUp
<1>6. ASSUME NEW w \in Writer, Rename(w) PROVE StoreTypeOK'
  <2>1. temp.of \in Ledger
    BY DEF Temp
  <2>. QED
    BY <1>6, <2>1 DEF Rename
<1>7. ASSUME NEW w \in Writer, AppendAudit(w) PROVE StoreTypeOK'
  BY <1>7 DEF AppendAudit
<1>8. ASSUME NEW w \in Writer, Unlock(w) PROVE StoreTypeOK'
  BY <1>8 DEF Unlock
<1>9. ASSUME NEW w \in Writer, StoreCrash(w) PROVE StoreTypeOK'
  BY <1>9 DEF StoreCrash
<1>10. CASE RemoveStaleLock
  BY <1>10 DEF RemoveStaleLock
<1>11. CASE UNCHANGED storeVars
  BY <1>11 DEF storeVars
<1>. QED
  BY <1>1, <1>2, <1>3, <1>4, <1>5, <1>6, <1>7, <1>8, <1>9, <1>10, <1>11 DEF StoreNext, SaveStep

\* Whoever is past the check keeps the lock until it has renamed: every step of
\* another writer, and every death, leaves what it checked and wrote alone.
LEMMA StoreInvStep == StoreTypeOK /\ StoreInv /\ [StoreNext]_storeVars => StoreInv'
<1>. SUFFICES ASSUME StoreTypeOK, StoreInv, [StoreNext]_storeVars PROVE StoreInv'
  OBVIOUS
<1>. USE DEF StoreTypeOK, StoreInv, Goes, Forgets, Unlocks, holders, Register!Unchanged
<1>1. ASSUME NEW w \in Writer, Load(w) PROVE StoreInv'
  BY <1>1 DEF Load
<1>2. ASSUME NEW w \in Writer, OpenLock(w) PROVE StoreInv'
  BY <1>2 DEF OpenLock
<1>3. ASSUME NEW w \in Writer, LockHeld(w) PROVE StoreInv'
  BY <1>3 DEF LockHeld
<1>4. ASSUME NEW w \in Writer, WriteTemp(w) PROVE StoreInv'
  BY <1>4 DEF WriteTemp
<1>5. ASSUME NEW w \in Writer, GiveUp(w) PROVE StoreInv'
  BY <1>5 DEF GiveUp
<1>6. ASSUME NEW w \in Writer, Rename(w) PROVE StoreInv'
  BY <1>6 DEF Rename, Whole
<1>7. ASSUME NEW w \in Writer, AppendAudit(w) PROVE StoreInv'
  BY <1>7 DEF AppendAudit
<1>8. ASSUME NEW w \in Writer, Unlock(w) PROVE StoreInv'
  BY <1>8 DEF Unlock
<1>9. ASSUME NEW w \in Writer, StoreCrash(w) PROVE StoreInv'
  BY <1>9 DEF StoreCrash
<1>10. CASE RemoveStaleLock
  BY <1>10 DEF RemoveStaleLock
<1>11. CASE UNCHANGED storeVars
  BY <1>11 DEF storeVars
<1>. QED
  BY <1>1, <1>2, <1>3, <1>4, <1>5, <1>6, <1>7, <1>8, <1>9, <1>10, <1>11 DEF StoreNext, SaveStep

\* The store starts in a state that satisfies its invariant.
LEMMA StoreStarts == StoreInit => StoreTypeOK /\ StoreInv
BY EmptyTypes DEF StoreInit, StoreTypeOK, StoreInv, Step, holders

\* Every step of a save is a step of the atomic register, or none.
LEMMA StoreStepRefines ==
    StoreTypeOK /\ StoreInv /\ [StoreNext]_storeVars
        => [Register!Next]_<<state, holders, loaded>>
<1>. SUFFICES ASSUME StoreTypeOK, StoreInv, [StoreNext]_storeVars
              PROVE  Register!Next \/ UNCHANGED <<state, holders, loaded>>
  OBVIOUS
<1>. USE DEF StoreTypeOK, StoreInv, Goes, Forgets, holders, Empty
<1>1. ASSUME NEW w \in Writer, Load(w) PROVE Register!Load(w)
  BY <1>1 DEF Load, Register!Load
<1>2. ASSUME NEW w \in Writer, OpenLock(w) PROVE UNCHANGED <<state, holders, loaded>>
  BY <1>2 DEF OpenLock
<1>3. ASSUME NEW w \in Writer, LockHeld(w) PROVE Register!Drop(w)
  BY <1>3 DEF LockHeld, Register!Drop, Register!LetsGo
<1>4. ASSUME NEW w \in Writer, WriteTemp(w) PROVE UNCHANGED <<state, holders, loaded>>
  BY <1>4 DEF WriteTemp
<1>5. ASSUME NEW w \in Writer, GiveUp(w) PROVE Register!Drop(w)
  BY <1>5 DEF GiveUp, Register!Drop, Register!LetsGo
<1>6. ASSUME NEW w \in Writer, Rename(w) PROVE Register!Save(w)
  <2>1. Register!LetsGo(w)
    BY <1>6 DEF Rename, Register!LetsGo
  <2>2. Register!Unchanged(loaded[w], state)
    BY <1>6 DEF Rename
  <2>3. state' \in Register!Evolutions(loaded[w])
    BY <1>6 DEF Rename, Whole
  <2>. QED
    BY <2>1, <2>2, <2>3 DEF Register!Save
<1>7. ASSUME NEW w \in Writer, AppendAudit(w) PROVE UNCHANGED <<state, holders, loaded>>
  BY <1>7 DEF AppendAudit
<1>8. ASSUME NEW w \in Writer, Unlock(w) PROVE UNCHANGED <<state, holders, loaded>>
  BY <1>8 DEF Unlock
<1>9. ASSUME NEW w \in Writer, StoreCrash(w)
      PROVE  Register!Drop(w) \/ UNCHANGED <<state, holders, loaded>>
  <2>1. CASE w \in holders
    BY <1>9, <2>1 DEF StoreCrash, Register!Drop, Register!LetsGo
  <2>2. CASE w \notin holders
    BY <1>9, <2>2 DEF StoreCrash
  <2>. QED
    BY <2>1, <2>2
<1>10. CASE RemoveStaleLock
  BY <1>10 DEF RemoveStaleLock
<1>11. CASE UNCHANGED storeVars
  BY <1>11 DEF storeVars
<1>. QED
  BY <1>1, <1>2, <1>3, <1>4, <1>5, <1>6, <1>7, <1>8, <1>9, <1>10, <1>11
     DEF StoreNext, SaveStep, Register!Next

\* The store starts as the register does.
LEMMA StoreStartsAsRegister == StoreInit => Register!Init
BY DEF StoreInit, Register!Init, holders, Empty

\* json-store.ts: however its file operations interleave and wherever writers
\* die, state.json is one register that is replaced atomically under a
\* compare-and-set of the revision.
THEOREM StoreImplementsLedger == StoreSpec => LedgerIsAtomic
<1>1. StoreSpec => [](StoreTypeOK /\ StoreInv)
  BY StoreStarts, StoreTypeStep, StoreInvStep, PTL DEF StoreSpec
<1>. QED
  BY <1>1, StoreStartsAsRegister, StoreStepRefines, PTL DEF StoreSpec, LedgerIsAtomic, Register!Spec

\* json-store.ts: the line appended to the audit log describes the ledger that
\* state.json holds at that moment.
THEOREM AuditIsTrue == StoreSpec => AuditTellsTheState
<1>1. StoreTypeOK /\ StoreInv /\ [StoreNext]_storeVars => [audit' # audit => audit' = state]_storeVars
  BY DEF StoreNext, SaveStep, Load, OpenLock, LockHeld, WriteTemp, GiveUp, Rename, AppendAudit,
         Unlock, StoreCrash, RemoveStaleLock, StoreInv, Goes, storeVars
<1>2. StoreSpec => [](StoreTypeOK /\ StoreInv)
  BY StoreStarts, StoreTypeStep, StoreInvStep, PTL DEF StoreSpec
<1>. QED
  BY <1>1, <1>2, PTL DEF StoreSpec, AuditTellsTheState

-----------------------------------------------------------------------------
(* The lease.                                                              *)

\* Every step of acquiring, releasing and dying keeps the lease's types.
LEMMA LeaseTypeStep == LeaseTypeOK /\ [LeaseNext]_leaseVars => LeaseTypeOK'
<1>. SUFFICES ASSUME LeaseTypeOK, [LeaseNext]_leaseVars PROVE LeaseTypeOK'
  OBVIOUS
<1>. USE DEF LeaseTypeOK, Moves, ForgetsOwner, Point, Living, NoLease
<1>1. ASSUME NEW c \in Controller, Start(c) PROVE LeaseTypeOK'
  BY <1>1 DEF Start
<1>2. ASSUME NEW c \in Controller, Create(c) PROVE LeaseTypeOK'
  BY <1>2 DEF Create
<1>3. ASSUME NEW c \in Controller, AlreadyExists(c) PROVE LeaseTypeOK'
  BY <1>3 DEF AlreadyExists
<1>4. ASSUME NEW c \in Controller, ChangedWhileAcquiring(c) PROVE LeaseTypeOK'
  BY <1>4 DEF ChangedWhileAcquiring
<1>5. ASSUME NEW c \in Controller, WriteLease(c) PROVE LeaseTypeOK'
  <2>1. lease' \in {lease, [by |-> c, written |-> TRUE]}
    BY <1>5 DEF WriteLease
  <2>2. /\ lease' \in [by : Controller \union {Nobody}, written : BOOLEAN]
        /\ lease'.written => lease'.by # Nobody
    <3>1. [by |-> c, written |-> TRUE] \in [by : Controller \union {Nobody}, written : BOOLEAN]
      OBVIOUS
    <3>. QED
      BY <2>1, <3>1
  <2>3. /\ at' \in [Controller -> Point] /\ tries' \in [Controller -> 0..2]
        /\ UNCHANGED <<owner, swapped>>
        /\ \A d \in Controller : at'[d] \in {"judge", "reread", "remove"}
                                     <=> at[d] \in {"judge", "reread", "remove"}
    BY <1>5 DEF WriteLease
  <2>. QED
    BY <2>2, <2>3
<1>6. ASSUME NEW c \in Controller, WriteFails(c) PROVE LeaseTypeOK'
  BY <1>6 DEF WriteFails
<1>7. ASSUME NEW c \in Controller, ReadLease(c) PROVE LeaseTypeOK'
  BY <1>7 DEF ReadLease
<1>8. ASSUME NEW c \in Controller, Judge(c) PROVE LeaseTypeOK'
  BY <1>8 DEF Judge
<1>9. ASSUME NEW c \in Controller, Reread(c) PROVE LeaseTypeOK'
  BY <1>9 DEF Reread
<1>10. ASSUME NEW c \in Controller, RemoveDead(c) PROVE LeaseTypeOK'
  BY <1>10 DEF RemoveDead
<1>11. ASSUME NEW c \in Controller, ReleaseSteps(c) PROVE LeaseTypeOK'
  <2>1. CASE Stop(c)
    BY <2>1 DEF Stop
  <2>2. CASE CheckRelease(c)
    BY <2>2 DEF CheckRelease
  <2>3. CASE Release(c)
    BY <2>3 DEF Release
  <2>. QED
    BY <1>11, <2>1, <2>2, <2>3 DEF ReleaseSteps
<1>12. ASSUME NEW c \in Controller, LeaseCrash(c) PROVE LeaseTypeOK'
  BY <1>12 DEF LeaseCrash
<1>13. CASE UNCHANGED leaseVars
  BY <1>13 DEF leaseVars
<1>. QED
  BY <1>1, <1>2, <1>3, <1>4, <1>5, <1>6, <1>7, <1>8, <1>9, <1>10, <1>11, <1>12, <1>13
     DEF LeaseNext, Acquire

\* Nobody comes back to life, so whoever was judged dead stays dead: only a swap
\* can take the file at the path away from its creator.
LEMMA LeaseInvStep == LeaseTypeOK /\ LeaseInv /\ [LeaseNext]_leaseVars => LeaseInv'
<1>. SUFFICES ASSUME LeaseTypeOK, LeaseInv, [LeaseNext]_leaseVars PROVE LeaseInv'
  OBVIOUS
<1>. USE DEF LeaseTypeOK, LeaseInv, Owners, Moves, ForgetsOwner, Point, Living, NoLease
<1>1. ASSUME NEW c \in Controller, Start(c) PROVE LeaseInv'
  BY <1>1 DEF Start
<1>2. ASSUME NEW c \in Controller, Create(c) PROVE LeaseInv'
  <2>1. /\ lease = NoLease /\ at[c] = "open" /\ UNCHANGED <<owner, swapped>>
        /\ lease' = [by |-> c, written |-> FALSE]
        /\ at' = [at EXCEPT ![c] = "write"]
    BY <1>2 DEF Create
  <2>2. /\ at'[c] = "write" /\ \A d \in Controller : d # c => at'[d] = at[d]
        /\ lease.by = Nobody /\ lease # [by |-> c, written |-> TRUE]
    BY <2>1
  <2>3. ASSUME NEW d \in Controller
        PROVE  /\ owner[d] # Nobody => at'[owner[d]] # "new"
               /\ at'[d] \in {"reread", "remove"} => at'[owner[d]] \notin Living
    <3>1. owner[d] # Nobody => owner[d] \in Controller /\ at[owner[d]] # "new"
      OBVIOUS
    <3>2. at'[d] \in {"reread", "remove"} => at[d] \in {"reread", "remove"} /\ owner[d] \in Controller
      BY <2>2
    <3>3. at[d] \in {"reread", "remove"} => at[owner[d]] \notin Living
      OBVIOUS
    <3>4. "open" \in Living /\ at[c] = "open"
      BY <2>1
    <3>. HIDE DEF LeaseTypeOK, LeaseInv, Owners, Moves, ForgetsOwner, Point, Living, NoLease
    <3>. QED
      BY <2>2, <3>1, <3>2, <3>3, <3>4
  <2>4. ASSUME NEW d \in Controller, ~swapped
        PROVE  /\ at'[d] \notin {"owner", "release", "unlink"}
               /\ at'[d] = "write" => d = c
    <3>1. lease # [by |-> d, written |-> TRUE] /\ lease # [by |-> d, written |-> FALSE]
      BY <2>1
    <3>. QED
      BY <2>2, <2>4, <3>1
  <2>5. lease'.by = c /\ owner' = owner /\ swapped' = swapped /\ lease' = [by |-> c, written |-> FALSE]
    BY <2>1
  <2>6. \A d \in Controller : ~swapped /\ at'[d] \in {"owner", "release", "unlink"} => lease' = [by |-> d, written |-> TRUE]
    BY <2>4
  <2>7. \A d \in Controller : ~swapped /\ at'[d] = "write" => lease' = [by |-> d, written |-> FALSE]
    BY <2>4, <2>5
  <2>. QED
    BY <2>2, <2>3, <2>5, <2>6, <2>7
<1>3. ASSUME NEW c \in Controller, AlreadyExists(c) PROVE LeaseInv'
  BY <1>3 DEF AlreadyExists
<1>4. ASSUME NEW c \in Controller, ChangedWhileAcquiring(c) PROVE LeaseInv'
  BY <1>4 DEF ChangedWhileAcquiring
<1>5. ASSUME NEW c \in Controller, WriteLease(c) PROVE LeaseInv'
  <2>1. lease' \in {lease, [by |-> c, written |-> TRUE]}
    BY <1>5 DEF WriteLease
  <2>2. /\ at' = [at EXCEPT ![c] = "owner"] /\ at[c] = "write"
        /\ UNCHANGED <<owner, swapped>>
        /\ lease.by = c => lease' = [by |-> c, written |-> TRUE]
        /\ lease.by # c => lease' = lease
    BY <1>5 DEF WriteLease
  <2>3. lease'.by # Nobody => at'[lease'.by] # "new"
    BY <2>1, <2>2
  <2>4. ~swapped' => lease' = [by |-> c, written |-> TRUE]
    BY <2>2
  <2>. QED
    BY <2>2, <2>3, <2>4
<1>6. ASSUME NEW c \in Controller, WriteFails(c) PROVE LeaseInv'
  BY <1>6 DEF WriteFails
<1>7. ASSUME NEW c \in Controller, ReadLease(c) PROVE LeaseInv'
  BY <1>7 DEF ReadLease
<1>8. ASSUME NEW c \in Controller, Judge(c) PROVE LeaseInv'
  BY <1>8 DEF Judge
<1>9. ASSUME NEW c \in Controller, Reread(c) PROVE LeaseInv'
  BY <1>9 DEF Reread
<1>10. ASSUME NEW c \in Controller, RemoveDead(c) PROVE LeaseInv'
  <2>1. /\ lease'.by = Nobody /\ owner' = [owner EXCEPT ![c] = Nobody]
        /\ at' = [at EXCEPT ![c] = "open"] /\ at[c] = "remove"
    BY <1>10 DEF RemoveDead
  <2>2. ASSUME ~swapped', NEW d \in Controller PROVE d \notin Owners' /\ at'[d] # "write"
    <3>1. ~swapped /\ lease.by \in {owner[c], Nobody}
      BY <1>10, <2>2 DEF RemoveDead
    <3>2. at[owner[c]] \notin Living /\ owner[c] # Nobody
      BY <2>1
    <3>3. CASE lease.by = d
      BY <2>1, <3>1, <3>2, <3>3
    <3>4. CASE lease.by # d
      BY <2>1, <3>1, <3>4
    <3>. QED
      BY <3>3, <3>4
  <2>. QED
    BY <1>10, <2>1, <2>2 DEF RemoveDead
<1>11. ASSUME NEW c \in Controller, ReleaseSteps(c) PROVE LeaseInv'
  <2>1. CASE Stop(c)
    BY <2>1 DEF Stop
  <2>2. CASE CheckRelease(c)
    BY <2>2 DEF CheckRelease
  <2>3. CASE Release(c)
    BY <2>3 DEF Release
  <2>. QED
    BY <1>11, <2>1, <2>2, <2>3 DEF ReleaseSteps
<1>12. ASSUME NEW c \in Controller, LeaseCrash(c) PROVE LeaseInv'
  BY <1>12 DEF LeaseCrash
<1>13. CASE UNCHANGED leaseVars
  BY <1>13 DEF leaseVars
<1>. QED
  BY <1>1, <1>2, <1>3, <1>4, <1>5, <1>6, <1>7, <1>8, <1>9, <1>10, <1>11, <1>12, <1>13
     DEF LeaseNext, Acquire

\* The lease starts in a state that satisfies its invariant, and the invariant
\* leaves room for one owner.
LEMMA LeaseStarts == LeaseInit => LeaseTypeOK /\ LeaseInv
<1>1. LeaseInit => LeaseTypeOK
  <2>1. NoLease \in [by : Controller \union {Nobody}, written : BOOLEAN] /\ ~NoLease.written
    BY DEF NoLease
  <2>2. LeaseInit => /\ at \in [Controller -> Point] /\ tries \in [Controller -> 0..2]
                     /\ owner \in [Controller -> Controller \union {Nobody}]
                     /\ \A c \in Controller : at[c] = "new" /\ owner[c] = Nobody
    BY DEF LeaseInit, Point
  <2>3. LeaseInit => lease = NoLease /\ swapped \in BOOLEAN
    BY DEF LeaseInit
  <2>. QED
    BY <2>1, <2>2, <2>3 DEF LeaseTypeOK
<1>2. LeaseInit => LeaseInv
  BY DEF LeaseInit, LeaseInv, Owners, NoLease
<1>. QED
  BY <1>1, <1>2

\* The file at the path names one creator.
LEMMA LeaseNamesOne == LeaseTypeOK /\ LeaseInv => ExclusiveUnlessSwapped
BY DEF LeaseTypeOK, LeaseInv, ExclusiveUnlessSwapped, MutualExclusion, Owners

\* controller-lease.ts: of any number of Controller processes that start, fail,
\* stop and die, one owns the state directory, unless a lease was swapped.
THEOREM LeaseExcludes == LeaseSpec => []ExclusiveUnlessSwapped
<1>1. LeaseSpec => [](LeaseTypeOK /\ LeaseInv)
  BY LeaseStarts, LeaseTypeStep, LeaseInvStep, PTL DEF LeaseSpec
<1>. QED
  BY <1>1, LeaseNamesOne, PTL

-----------------------------------------------------------------------------
(* Both together.                                                          *)

\* A step of the composed system is a step of the store, or leaves it alone.
LEMMA CustodyStepStore == [CustodyNext]_custodyVars => [StoreNext]_storeVars
<1>. SUFFICES ASSUME CustodyNext PROVE StoreNext \/ UNCHANGED storeVars
  BY DEF custodyVars
<1>1. ASSUME NEW c \in Controller, ControllerTicks(c) \/ ControllerFails(c) PROVE StoreNext
  BY <1>1 DEF ControllerTicks, ControllerFails, StoreNext, SaveStep
<1>2. ASSUME NEW c \in Controller, HoldsLease(c) PROVE UNCHANGED storeVars
  BY <1>2 DEF HoldsLease
<1>3. ASSUME NEW o \in Operator, OperatorDecides(o) PROVE StoreNext
  BY <1>3 DEF OperatorDecides, StoreNext, SaveStep
<1>4. ASSUME NEW w \in Writer, Saves(w) \/ Dies(w) PROVE StoreNext
  BY <1>4 DEF Saves, Dies, StoreNext, SaveStep
<1>5. CASE RemoveStaleLock
  BY <1>5 DEF StoreNext
<1>. QED
  BY <1>1, <1>2, <1>3, <1>4, <1>5 DEF CustodyNext

\* A step of the composed system is a step of the lease, or leaves it alone.
LEMMA CustodyStepLease == [CustodyNext]_custodyVars => [LeaseNext]_leaseVars
<1>. SUFFICES ASSUME CustodyNext PROVE LeaseNext \/ UNCHANGED leaseVars
  BY DEF custodyVars
<1>1. ASSUME NEW c \in Controller, ControllerTicks(c) PROVE UNCHANGED leaseVars
  BY <1>1 DEF ControllerTicks
<1>2. ASSUME NEW c \in Controller, ControllerFails(c) \/ HoldsLease(c) PROVE LeaseNext
  BY <1>2 DEF ControllerFails, HoldsLease, LeaseNext, ReleaseSteps
<1>3. ASSUME NEW o \in Operator, OperatorDecides(o) PROVE UNCHANGED leaseVars
  BY <1>3 DEF OperatorDecides
<1>4. ASSUME NEW w \in Writer, Saves(w) \/ Dies(w) PROVE LeaseNext \/ UNCHANGED leaseVars
  BY <1>4 DEF Saves, Dies, LeaseNext
<1>. QED
  BY <1>1, <1>2, <1>3, <1>4 DEF CustodyNext

\* cli.ts: Controllers and operator commands on one state directory share an
\* atomic ledger, and the Controllers exclude each other unless a lease was
\* swapped.
THEOREM CustodyComposes == CustodySpec => LedgerIsAtomic /\ []ExclusiveUnlessSwapped
<1>1. CustodySpec => StoreSpec
  BY CustodyStepStore, PTL DEF CustodySpec, CustodyInit, StoreSpec
<1>2. CustodySpec => LeaseSpec
  BY CustodyStepLease, PTL DEF CustodySpec, CustodyInit, LeaseSpec
<1>. QED
  BY <1>1, <1>2, StoreImplementsLedger, LeaseExcludes

\* A Controller is in a load or a save only while it owns the lease.
OwnersTick == \A c \in Controller : step[c] # "idle" => at[c] = "owner"

\* cli.ts `run`: the ticks stop before the lease is given up, and a failed save
\* ends them.
LEMMA OwnersTickStep ==
    StoreTypeOK /\ LeaseTypeOK /\ OwnersTick /\ [CustodyNext]_custodyVars => OwnersTick'
<1>. SUFFICES ASSUME StoreTypeOK, LeaseTypeOK, OwnersTick, [CustodyNext]_custodyVars PROVE OwnersTick'
  OBVIOUS
<1>. USE DEF StoreTypeOK, LeaseTypeOK, OwnersTick, Goes, Moves
<1>1. ASSUME NEW c \in Controller, ControllerTicks(c) PROVE OwnersTick'
  BY <1>1 DEF ControllerTicks, leaseVars, Load, OpenLock, WriteTemp, AppendAudit, Unlock
<1>2. ASSUME NEW c \in Controller, ControllerFails(c) PROVE OwnersTick'
  BY <1>2 DEF ControllerFails, Stop, LockHeld, GiveUp
<1>3. ASSUME NEW c \in Controller, HoldsLease(c) PROVE OwnersTick'
  <2>1. step' = step /\ (at[c] = "owner" => step[c] = "idle")
        /\ \E p \in Point : at' = [at EXCEPT ![c] = p]
    BY <1>3 DEF HoldsLease, storeVars, Acquire, Start, Create, AlreadyExists,
                ChangedWhileAcquiring, WriteLease, WriteFails, ReadLease, Judge, Reread, RemoveDead,
                CheckRelease, Release, Stop, Point
  <2>. QED
    BY <2>1
<1>4. ASSUME NEW o \in Operator, OperatorDecides(o) PROVE OwnersTick'
  BY <1>4 DEF OperatorDecides, leaseVars, Load, OpenLock, LockHeld, WriteTemp, GiveUp, AppendAudit, Unlock
<1>5. ASSUME NEW w \in Writer, Saves(w) PROVE OwnersTick'
  BY <1>5 DEF Saves, Rename, leaseVars
<1>6. ASSUME NEW w \in Writer, Dies(w) PROVE OwnersTick'
  BY <1>6 DEF Dies, StoreCrash, LeaseCrash, leaseVars
<1>7. CASE RemoveStaleLock /\ UNCHANGED leaseVars
  BY <1>7 DEF RemoveStaleLock, leaseVars
<1>8. CASE UNCHANGED custodyVars
  BY <1>8 DEF custodyVars, storeVars, leaseVars
<1>. QED
  BY <1>1, <1>2, <1>3, <1>4, <1>5, <1>6, <1>7, <1>8 DEF CustodyNext

\* A Controller that has loaded and not yet written is overtaken by an operator
\* or by nobody: a second Controller would have to own the lease as well.
LEMMA OvertakeStep ==
    StoreTypeOK /\ LeaseTypeOK /\ LeaseInv /\ OwnersTick /\ OnlyOperatorsOvertake
    /\ [CustodyNext]_custodyVars => OnlyOperatorsOvertake'
<1>. SUFFICES ASSUME StoreTypeOK, LeaseTypeOK, LeaseInv, OwnersTick, OnlyOperatorsOvertake,
                     [CustodyNext]_custodyVars
              PROVE  OnlyOperatorsOvertake'
  OBVIOUS
<1>. SUFFICES ASSUME ~swapped',
                     NEW d \in Controller, at'[d] = "owner", step'[d] \in {"loaded", "locked"},
                     state' # loaded'[d]
              PROVE  saver' \in Operator
  BY Zenon DEF OnlyOperatorsOvertake
<1>. USE DEF StoreTypeOK, LeaseTypeOK, OwnersTick, OnlyOperatorsOvertake, Goes, Moves, Forgets
<1>1. ASSUME NEW c \in Controller, ControllerTicks(c) PROVE saver' \in Operator
  BY <1>1 DEF ControllerTicks, leaseVars, Load, OpenLock, WriteTemp, AppendAudit, Unlock
<1>2. ASSUME NEW c \in Controller, ControllerFails(c) PROVE saver' \in Operator
  BY <1>2 DEF ControllerFails, Stop, LockHeld, GiveUp
<1>3. ASSUME NEW c \in Controller, HoldsLease(c) PROVE saver' \in Operator
  <2>1. /\ UNCHANGED <<step, state, loaded, saver>> /\ (swapped => swapped')
        /\ \E p \in Point : at' = [at EXCEPT ![c] = p]
    BY <1>3 DEF HoldsLease, storeVars, Acquire, Start, Create, AlreadyExists,
                ChangedWhileAcquiring, WriteLease, WriteFails, ReadLease, Judge, Reread, RemoveDead,
                CheckRelease, Release, Stop, Point
  <2>. QED
    BY <2>1
<1>4. ASSUME NEW o \in Operator, OperatorDecides(o) PROVE saver' \in Operator
  BY <1>4 DEF OperatorDecides, leaseVars, Load, OpenLock, LockHeld, WriteTemp, GiveUp, AppendAudit, Unlock
<1>5. ASSUME NEW w \in Writer, Saves(w) PROVE saver' \in Operator
  <2>1. UNCHANGED leaseVars /\ saver' = w /\ step'[w] = "renamed"
    BY <1>5 DEF Saves, Rename
  <2>2. CASE w \in Controller
    <3>1. w \in Owners /\ d \in Owners /\ ~swapped
      BY <1>5, <2>1, <2>2 DEF Saves, Owners, leaseVars
    <3>2. w = d
      BY <3>1 DEF LeaseInv, Owners
    <3>. QED
      BY <2>1, <3>2
  <2>. QED
    BY <2>1, <2>2
<1>6. ASSUME NEW w \in Writer, Dies(w) PROVE saver' \in Operator
  BY <1>6 DEF Dies, StoreCrash, LeaseCrash, leaseVars
<1>7. CASE RemoveStaleLock /\ UNCHANGED <<leaseVars, saver>>
  BY <1>7 DEF RemoveStaleLock, leaseVars
<1>8. CASE UNCHANGED custodyVars
  BY <1>8 DEF custodyVars, storeVars, leaseVars
<1>. QED
  BY <1>1, <1>2, <1>3, <1>4, <1>5, <1>6, <1>7, <1>8 DEF CustodyNext

\* cli.ts, controller-lease.ts: only an operator's decision ever replaces the
\* ledger between the load and the check of a tick, unless a lease was swapped.
THEOREM TicksYieldToOperatorsOnly == CustodySpec => []OnlyOperatorsOvertake
<1>. DEFINE IInv == /\ StoreTypeOK /\ StoreInv /\ LeaseTypeOK /\ LeaseInv
                    /\ OwnersTick /\ OnlyOperatorsOvertake
<1>1. CustodyInit => IInv
  <2>1. CustodyInit => OwnersTick /\ OnlyOperatorsOvertake
    BY DEF CustodyInit, StoreInit, LeaseInit, OwnersTick, OnlyOperatorsOvertake
  <2>. QED
    BY <2>1, StoreStarts, LeaseStarts DEF CustodyInit
<1>2. IInv /\ [CustodyNext]_custodyVars => IInv'
  <2>. SUFFICES ASSUME IInv, [CustodyNext]_custodyVars PROVE IInv'
    OBVIOUS
  <2>1. StoreTypeOK' /\ StoreInv'
    BY CustodyStepStore, StoreTypeStep, StoreInvStep
  <2>2. LeaseTypeOK' /\ LeaseInv'
    BY CustodyStepLease, LeaseTypeStep, LeaseInvStep
  <2>. QED
    BY <2>1, <2>2, OwnersTickStep, OvertakeStep
<1>. QED
  BY <1>1, <1>2, PTL DEF CustodySpec

=============================================================================
