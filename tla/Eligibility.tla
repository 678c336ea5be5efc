---------------------------- MODULE Eligibility ----------------------------
(***************************************************************************)
(* selectNextTask: which issue of a GitHub issue graph may be claimed.  A  *)
(* Map is an issue with sub-issues; it orders them and is never claimed.   *)
(***************************************************************************)
EXTENDS Integers, FiniteSetsExt, SequencesExt

CONSTANTS
    Issue,      \* issue numbers
    Blockers,   \* the issues that block each issue
    Shapes      \* how issues may be nested: records of sub-issues and parents

NoIssue == 0

ASSUME IssueAssumption ==
    /\ Issue \subseteq Nat \ {NoIssue}
    /\ Blockers \in [Issue -> SUBSET Issue]
    /\ \A s \in Shapes :
        /\ s.sub \in [Issue -> Seq(Issue)] /\ s.parent \in [Issue -> Issue \union {NoIssue}]
        /\ \A m \in Issue : IsInjective(s.sub[m])

\* What of an issue the selection looks at.
Snapshot == [open : BOOLEAN, ready : BOOLEAN, claimed : BOOLEAN, assigned : BOOLEAN]

\* A map is `sub[m]`, in order; the owners of a child are the Maps that list it.
IsMap(s, i)  == s.sub[i] # <<>>
Owners(s, i) == {m \in Issue : i \in ToSet(s.sub[m])}

\* Mutant: the ledger is not asked.
Executable_IgnoresLedger(snap, i, done) ==
    /\ snap[i].open /\ snap[i].ready /\ ~snap[i].assigned
    /\ \A b \in Blockers[i] : ~snap[b].open

\* commonFailure is null.
Executable(snap, i, done) ==
    /\ snap[i].open /\ snap[i].ready /\ ~snap[i].assigned
    /\ \A b \in Blockers[i] : ~snap[b].open
    /\ i \notin done

\* The first OPEN child of a Map; later ones do not jump the queue.
frontier(s, snap, m) ==
    LET open == {k \in DOMAIN s.sub[m] : snap[s.sub[m][k]].open}
    IN  IF open = {} THEN NoIssue ELSE s.sub[m][Min(open)]

MapTask(s, snap, done, m) ==
    LET f == frontier(s, snap, m)
    IN  IF /\ IsMap(s, m) /\ Executable(snap, m, done) /\ s.parent[m] = NoIssue
           /\ f # NoIssue /\ ~IsMap(s, f)
           /\ Owners(s, f) = {m} /\ s.parent[f] = m
           /\ Executable(snap, f, done)
          THEN {[issue |-> f, key |-> m]} ELSE {}

StandaloneTask(s, snap, done, i) ==
    IF /\ ~IsMap(s, i) /\ s.parent[i] = NoIssue /\ Owners(s, i) = {}
       /\ Executable(snap, i, done)
      THEN {[issue |-> i, key |-> i]} ELSE {}

\* Keys are the numbers of Maps and of standalone issues, hence unique.
selectNextTask(s, snap, done) ==
    LET eligible == UNION {MapTask(s, snap, done, i) \union StandaloneTask(s, snap, done, i) : i \in Issue}
        first    == Min({t.key : t \in eligible})
    IN  IF eligible = {} THEN NoIssue ELSE (CHOOSE t \in eligible : t.key = first).issue

=============================================================================
