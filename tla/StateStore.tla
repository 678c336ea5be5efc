----------------------------- MODULE StateStore -----------------------------
(***************************************************************************)
(* JsonStateStore: state.json, replaced by renaming a temporary file over  *)
(* it, under the lock file controller.lock, with one audit line per save.  *)
(* A save is a sequence of file operations; writers interleave at each of  *)
(* them and may die after each of them.                                    *)
(***************************************************************************)
EXTENDS Integers

CONSTANTS Writer, MaxJobs, MaxRev      \* as in AtomicLedger

VARIABLES
    state,      \* content of state.json
    loaded,     \* what each writer last loaded
    step,       \* how far each writer's save is
    next,       \* what each writer is about to save
    lock,       \* controller.lock: absent, or who created it
    temp,       \* content of state.json.tmp
    audit       \* last line of events.jsonl

\* Writers between their load and the end of their save.
holders == {w \in Writer : step[w] \in {"loaded", "locked", "written"}}
Register == INSTANCE AtomicLedger WITH state <- state, loaded <- loaded, holders <- holders

Ledger == Register!Ledger
Empty  == Register!Empty

ASSUME StoreAssumption == MaxJobs \in Nat /\ MaxRev \in Nat

storeVars == <<state, loaded, step, next, lock, temp, audit>>

Absent == "absent"

\* The temporary file; torn is neither the old nor the new content.
Temp == [is : {"absent", "torn", "whole"}, of : Ledger]
NoTemp == [is |-> "absent", of |-> Empty]
Whole(l) == [is |-> "whole", of |-> l]
Torn == [NoTemp EXCEPT !.is = "torn"]

Step   == {"idle", "loaded", "locked", "written", "renamed", "audited"}

ASSUME AbsentAssumption == Absent \notin Writer

StoreTypeOK ==
    /\ state \in Ledger
    /\ loaded \in [Writer -> Ledger]
    /\ step \in [Writer -> Step]
    /\ next \in [Writer -> Ledger]
    /\ lock \in Writer \union {Absent}
    /\ temp \in Temp
    /\ audit \in Ledger

\* The first line of the audit log is the first save's; `Empty` stands for none.
StoreInit ==
    /\ state = Empty /\ audit = Empty /\ temp = NoTemp /\ lock = Absent
    /\ loaded = [w \in Writer |-> Empty] /\ next = [w \in Writer |-> Empty]
    /\ step = [w \in Writer |-> "idle"]

Goes(w, from, to) == step[w] = from /\ step' = [step EXCEPT ![w] = to]

-----------------------------------------------------------------------------

Load(w) ==
    /\ Goes(w, "idle", "loaded")
    /\ loaded' = [loaded EXCEPT ![w] = state]
    /\ UNCHANGED <<state, next, lock, temp, audit>>

\* openSync(lockPath, "wx"): creates the file or throws.
OpenLock(w) ==
    /\ Goes(w, "loaded", "locked")
    /\ lock = Absent /\ lock' = w
    /\ \E e \in Register!Evolutions(loaded[w]) : next' = [next EXCEPT ![w] = e]
    /\ UNCHANGED <<state, loaded, temp, audit>>

\* The locals of a save that is over.
Forgets(w) ==
    /\ loaded' = [loaded EXCEPT ![w] = Empty]
    /\ next' = [next EXCEPT ![w] = Empty]

LockHeld(w) ==
    /\ Goes(w, "loaded", "idle") /\ lock # Absent
    /\ Forgets(w)
    /\ UNCHANGED <<state, lock, temp, audit>>

\* Mutant: the revision was compared before the lock was taken.
WriteTemp_CheckedEarlier(w) ==
    /\ Goes(w, "locked", "written")
    /\ temp' = Whole(next[w])
    /\ UNCHANGED <<state, loaded, next, lock, audit>>

WriteTemp(w) ==
    /\ Goes(w, "locked", "written")
    /\ Register!Unchanged(loaded[w], state)
    /\ temp' = Whole(next[w])
    /\ UNCHANGED <<state, loaded, next, lock, audit>>

\* The finally block unlocks; a lock file it cannot remove stays.
Unlocks == lock' \in {Absent, lock}

\* The revision changed, or a file operation throws.
GiveUp(w) ==
    /\ \/ Goes(w, "locked", "idle") /\ temp' \in {temp, Torn}
       \/ Goes(w, "written", "idle") /\ UNCHANGED temp
    /\ Forgets(w) /\ Unlocks
    /\ UNCHANGED <<state, audit>>

Rename(w) ==
    /\ Goes(w, "written", "renamed")
    /\ temp.is = "whole"
    /\ state' = temp.of /\ temp' = NoTemp
    /\ loaded' = [loaded EXCEPT ![w] = Empty]
    /\ UNCHANGED <<next, lock, audit>>

\* Mutant: the audit line is written before the rename can fail.
AppendAudit_Early(w) ==
    /\ \/ Goes(w, "renamed", "audited")
       \/ step[w] = "written" /\ UNCHANGED step
    /\ audit' = next[w]
    /\ UNCHANGED <<state, loaded, next, lock, temp>>

\* A failed append is noted elsewhere and never undoes the save.
AppendAudit(w) ==
    /\ Goes(w, "renamed", "audited")
    /\ audit' \in {audit, next[w]}
    /\ UNCHANGED <<state, loaded, next, lock, temp>>

Unlock(w) ==
    /\ Goes(w, "audited", "idle")
    /\ Forgets(w) /\ Unlocks
    /\ UNCHANGED <<state, temp, audit>>

\* A writer dies: its files stay as they are.
StoreCrash(w) ==
    /\ step' = [step EXCEPT ![w] = "idle"]
    /\ temp' \in IF step[w] = "locked" THEN {temp, Torn} ELSE {temp}
    /\ Forgets(w)
    /\ UNCHANGED <<state, lock, audit>>

\* A person removes a lock file whose writer is gone.
RemoveStaleLock ==
    /\ lock # Absent /\ step[lock] \in {"idle", "loaded"}
    /\ lock' = Absent
    /\ UNCHANGED <<state, loaded, step, next, temp, audit>>

SaveStep(w) ==
    \/ Load(w) \/ OpenLock(w) \/ LockHeld(w) \/ WriteTemp(w) \/ GiveUp(w)
    \/ Rename(w) \/ AppendAudit(w) \/ Unlock(w)

StoreNext == (\E w \in Writer : SaveStep(w) \/ StoreCrash(w)) \/ RemoveStaleLock

StoreSpec == StoreInit /\ [][StoreNext]_storeVars

-----------------------------------------------------------------------------

\* However saves interleave and die, state.json behaves as one register with an
\* atomic compare-and-set, and never shows a half-written or foreign content.
LedgerIsAtomic == Register!Spec

\* An audit line describes what state.json held when it was appended.
AuditTellsTheState == [][audit' # audit => audit' = state]_storeVars

\* Why they hold: whoever is past the check holds the lock, so that nobody
\* replaced the ledger, or the temporary file, in between.
StoreInv ==
    \A w \in Writer :
        /\ step[w] \in {"locked", "written", "renamed", "audited"} => lock = w
        /\ step[w] \in {"locked", "written"} => next[w] \in Register!Evolutions(loaded[w])
        /\ step[w] = "written" => Register!Unchanged(loaded[w], state) /\ temp = Whole(next[w])
        /\ step[w] = "renamed" => state = next[w]
        /\ w \notin holders => loaded[w] = Empty

=============================================================================
