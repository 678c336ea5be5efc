---------------------------- MODULE FleetProofs ----------------------------
(***************************************************************************)
(* What holds of FleetSupervisor for any number of projects, Supervisors   *)
(* and Controllers, and for every restart budget.                          *)
(***************************************************************************)
EXTENDS FleetSupervisor, WellFoundedInduction, SequenceTheorems, FiniteSetTheorems, TLAPS

-----------------------------------------------------------------------------
(* Controllers and their owners.                                             *)

Process == [at : At, of : Project \union {Nobody}, owner : Supervisor \union {Nobody}]

\* A Supervisor that owns a Controller process is one that runs; and once it has killed
\* its Controllers, none that it owns is left alive.
OwnersRun ==
    /\ sup \in [Supervisor -> Stage]
    /\ ctl \in [Controller -> Process]
    /\ StopIsClean
    /\ \A c \in Controller :
           ctl[c].owner # Nobody /\ sup[ctl[c].owner] = "killing" => ctl[c].at = "exited"

\* The record of no process, of a started one, and of one that ended.
LEMMA ProcessTypes ==
    /\ NoController \in Process /\ NoController.owner = Nobody
    /\ \A p \in Project, o \in Supervisor \union {Nobody} :
           [at |-> "booting", of |-> p, owner |-> o] \in Process
    /\ \A x \in Process, a \in At : /\ [x EXCEPT !.at = a] \in Process
                                    /\ [x EXCEPT !.at = a].owner = x.owner
                                    /\ [x EXCEPT !.at = a].at = a
    /\ \A x \in Process : /\ [x EXCEPT !.owner = Nobody] \in Process
                          /\ [x EXCEPT !.owner = Nobody].owner = Nobody
    /\ {"none", "booting", "creating", "leased", "exited"} = At
BY DEF NoController, Process, At

\* A process that changes keeps its owner or is nobody's; it cannot come back to life,
\* and only a running Supervisor starts one.
LEMMA ProcessStep ==
    ASSUME OwnersRun, UNCHANGED sup, ctl' \in [Controller -> Process],
           \A c \in Controller :
               \/ ctl'[c].owner = Nobody
               \/ ctl'[c].owner = ctl[c].owner /\ (ctl[c].at = "exited" => ctl'[c].at = "exited")
               \/ ctl'[c].owner \in Supervisor /\ sup[ctl'[c].owner] = "running"
    PROVE  OwnersRun'
BY DEF OwnersRun, StopIsClean, Supervises

\* One process changes, the others stay.
LEMMA OneProcessStep ==
    ASSUME OwnersRun, UNCHANGED sup, NEW d \in Controller, NEW x \in Process,
           ctl' = [ctl EXCEPT ![d] = x],
           \/ x.owner = Nobody
           \/ x.owner = ctl[d].owner /\ (ctl[d].at = "exited" => x.at = "exited")
           \/ x.owner \in Supervisor /\ sup[x.owner] = "running"
    PROVE  OwnersRun'
<1>1. ctl' \in [Controller -> Process]
  BY DEF OwnersRun
<1>2. \A c \in Controller : ctl'[c] = IF c = d THEN x ELSE ctl[c]
  BY DEF OwnersRun
<1>. QED
  BY <1>1, <1>2, ProcessStep

\* The Controllers of a Supervisor that dies are nobody's.
LEMMA DeathStep ==
    ASSUME OwnersRun, NEW s \in Supervisor, Dies(s, ctl)
    PROVE  OwnersRun'
<1>1. ASSUME NEW c \in Controller
      PROVE  /\ ctl'[c] \in Process
             /\ (ctl'[c] = ctl[c] /\ ctl[c].owner # s) \/ ctl'[c].owner = Nobody
  <2>1. ctl[c] \in Process
    BY DEF OwnersRun
  <2>2. ctl'[c] = IF ctl[c].owner # s THEN ctl[c]
                  ELSE IF ctl[c].at = "exited" THEN NoController
                  ELSE [ctl[c] EXCEPT !.owner = Nobody]
    BY DEF Dies
  <2>. QED
    BY <2>1, <2>2, ProcessTypes
<1>2. ctl' = [c \in Controller |-> ctl'[c]]
  BY DEF Dies
<1>3. ctl' \in [Controller -> Process]
  BY <1>1, <1>2
<1>4. sup' \in [Supervisor -> Stage] /\ \A t \in Supervisor : t # s => sup'[t] = sup[t]
  BY DEF OwnersRun, Dies, Stage
<1>. QED
  BY <1>1, <1>3, <1>4 DEF OwnersRun, StopIsClean, Process, Supervises

\* OwnersRun is inductive.
LEMMA OwnersStep == OwnersRun /\ [Next]_vars => OwnersRun'
<1>. SUFFICES ASSUME OwnersRun, [Next]_vars PROVE OwnersRun'
  OBVIOUS
<1>0. \A c \in Controller : ctl[c] \in Process
  BY DEF OwnersRun
<1>1. ASSUME UNCHANGED <<sup, ctl>> PROVE OwnersRun'
  BY <1>1 DEF OwnersRun, StopIsClean, Supervises
<1>2. ASSUME NEW s \in Supervisor, NEW selected, NEW changed,
             Launch(s, selected, changed) \/ ConfirmStale(s) \/ UnlinkStale(s)
      PROVE  OwnersRun'
  <2>1. /\ UNCHANGED ctl /\ sup' \in [Supervisor -> Stage] /\ ~Supervises(s) /\ ~Supervises(s)'
        /\ \A t \in Supervisor : t # s => sup'[t] = sup[t]
    <3>. USE DEF OwnersRun, Stage, Supervises
    <3>1. CASE Launch(s, selected, changed)
      BY <3>1 DEF Launch
    <3>2. CASE ConfirmStale(s)
      BY <3>2 DEF ConfirmStale
    <3>3. CASE UnlinkStale(s)
      BY <3>3 DEF UnlinkStale
    <3>. QED
      BY <1>2, <3>1, <3>2, <3>3
  <2>. QED
    BY <2>1 DEF OwnersRun, StopIsClean, Process, Supervises
<1>3. ASSUME NEW s \in Supervisor, run(s) \/ RunFails(s) \/ Stop(s) PROVE OwnersRun'
  <2>1. /\ UNCHANGED ctl /\ sup' \in [Supervisor -> Stage]
        /\ sup'[s] \in {"running", "stopping"} \/ sup[s] \in {"loaded", "confirmed"}
        /\ sup'[s] # "killing"
        /\ \A t \in Supervisor : t # s => sup'[t] = sup[t]
    <3>. USE DEF OwnersRun, Stage
    <3>1. CASE run(s)
      BY <3>1 DEF run
    <3>2. CASE RunFails(s)
      BY <3>2 DEF RunFails
    <3>3. CASE Stop(s)
      BY <3>3 DEF Stop
    <3>. QED
      BY <1>3, <3>1, <3>2, <3>3
  <2>. QED
    BY <2>1 DEF OwnersRun, StopIsClean, Process, Supervises
<1>4. ASSUME NEW s \in Supervisor, Kill(s) PROVE OwnersRun'
  <2>1. ASSUME NEW c \in Controller
        PROVE  /\ ctl'[c] \in Process /\ ctl'[c].owner = ctl[c].owner
               /\ ctl[c].owner = s \/ ctl[c].at = "exited" => ctl'[c].at = "exited"
    <3>1. ctl'[c] = IF ctl[c].owner = s THEN [ctl[c] EXCEPT !.at = "exited"] ELSE ctl[c]
      BY <1>4 DEF Kill
    <3>. QED
      BY <1>0, <3>1, ProcessTypes
  <2>2. ctl' = [c \in Controller |-> ctl'[c]]
    BY <1>4 DEF Kill
  <2>3. ctl' \in [Controller -> Process]
    BY <2>1, <2>2
  <2>4. /\ sup' \in [Supervisor -> Stage] /\ sup'[s] = "killing" /\ sup[s] = "stopping"
        /\ \A t \in Supervisor : t # s => sup'[t] = sup[t]
    BY <1>4 DEF Kill, OwnersRun, Stage
  <2>. QED
    BY <2>1, <2>3, <2>4 DEF OwnersRun, StopIsClean, Process, Supervises
<1>5. ASSUME NEW s \in Supervisor, Finish(s) PROVE OwnersRun'
  <2>1. ASSUME NEW c \in Controller
        PROVE  /\ ctl'[c] \in Process
               /\ ctl'[c].owner = Nobody \/ (ctl'[c] = ctl[c] /\ ctl[c].owner # s)
    <3>1. ctl'[c] = IF ctl[c].owner = s /\ ctl[c].at = "exited" THEN NoController ELSE ctl[c]
      BY <1>5 DEF Finish
    <3>2. ctl[c].owner = s => ctl[c].at = "exited"
      BY <1>5, FleetAssumption DEF Finish, OwnersRun
    <3>. QED
      BY <1>0, <3>1, <3>2, ProcessTypes
  <2>2. ctl' = [c \in Controller |-> ctl'[c]]
    BY <1>5 DEF Finish
  <2>3. ctl' \in [Controller -> Process]
    BY <2>1, <2>2
  <2>4. sup' \in [Supervisor -> Stage] /\ \A t \in Supervisor : t # s => sup'[t] = sup[t]
    BY <1>5 DEF Finish, OwnersRun, Stage
  <2>. QED
    BY <2>1, <2>3, <2>4 DEF OwnersRun, StopIsClean, Process, Supervises
<1>6. ASSUME NEW s \in Supervisor, Crash(s) PROVE OwnersRun'
  BY <1>6, DeathStep DEF Crash
<1>7. ASSUME NEW s \in Supervisor, NEW p \in Project, Starts(s, p) PROVE OwnersRun'
  <2>1. CASE Adopt(s, p) \/ MalformedLease(s, p)
    BY <1>1, <2>1 DEF Adopt, MalformedLease
  <2>2. CASE SpawnFails(s, p)
    BY <1>1, <2>2, DeathStep DEF SpawnFails
  <2>3. ASSUME NEW c \in Controller, spawnProject(s, p, c) PROVE OwnersRun'
    <3>1. sup[s] = "running"
      BY <2>3 DEF spawnProject, Spawns, MayStart
    <3>. DEFINE x == [at |-> "booting", of |-> p, owner |-> s]
    <3>2. x \in Process /\ x.owner = s
      BY ProcessTypes
    <3>3. ctl' = [ctl EXCEPT ![c] = x] /\ UNCHANGED sup
      BY <2>3 DEF spawnProject
    <3>. HIDE DEF x
    <3>. QED
      BY <3>1, <3>2, <3>3, OneProcessStep
  <2>. QED
    BY <1>7, <2>1, <2>2, <2>3 DEF Starts
<1>8. ASSUME NEW s \in Supervisor, NEW p \in Project, handleOwnedExit(s, p) PROVE OwnersRun'
  <2>1. ctl' = [ctl EXCEPT ![mem[s][p].child] = NoController] /\ UNCHANGED sup
    BY <1>8 DEF handleOwnedExit
  <2>2. ctl' \in [Controller -> Process]
    BY <2>1, ProcessTypes DEF OwnersRun
  <2>3. \A c \in Controller : ctl'[c] = ctl[c] \/ ctl'[c].owner = Nobody
    BY <2>1, ProcessTypes DEF OwnersRun
  <2>. QED
    BY <2>1, <2>2, <2>3, ProcessStep
<1>9. ASSUME NEW p \in Project, NEW c \in Controller, runProjectTick(p, c) PROVE OwnersRun'
  <2>. DEFINE x == [at |-> "booting", of |-> p, owner |-> Nobody]
  <2>1. x \in Process /\ x.owner = Nobody
    BY ProcessTypes
  <2>2. ctl' = [ctl EXCEPT ![c] = x] /\ UNCHANGED sup
    BY <1>9 DEF runProjectTick
  <2>. HIDE DEF x
  <2>. QED
    BY <2>1, <2>2, OneProcessStep
<1>10. ASSUME NEW c \in Controller, ctl' = [ctl EXCEPT ![c] = Gone(c)], UNCHANGED sup
       PROVE  OwnersRun'
  <2>1. Gone(c) \in Process
    BY <1>0, ProcessTypes DEF Gone
  <2>2. Gone(c).owner = Nobody \/ (Gone(c).owner = ctl[c].owner /\ Gone(c).at = "exited")
    BY <1>0, ProcessTypes DEF Gone
  <2>. QED
    BY <1>10, <2>1, <2>2, OneProcessStep
<1>11. ASSUME NEW c \in Controller, NEW a \in {"creating", "leased"}, ctl[c].at # "exited",
              ctl' = [ctl EXCEPT ![c].at = a], UNCHANGED sup
       PROVE  OwnersRun'
  <2>1. ctl' = [ctl EXCEPT ![c] = [ctl[c] EXCEPT !.at = a]]
    BY <1>11
  <2>2. [ctl[c] EXCEPT !.at = a] \in Process /\ [ctl[c] EXCEPT !.at = a].owner = ctl[c].owner
    BY <1>0, ProcessTypes
  <2>. QED
    BY <1>11, <2>1, <2>2, OneProcessStep
<1>12. ASSUME NEW c \in Controller, acquireControllerLease(c) \/ WriteLease(c) \/ Ends(c)
       PROVE  OwnersRun'
  BY <1>10, <1>11, <1>12 DEF acquireControllerLease, WriteLease, Ends
<1>13. ASSUME NEW s \in Supervisor, NEW p \in Project, AdoptedEnds(s, p) PROVE OwnersRun'
  BY <1>1, <1>13 DEF AdoptedEnds
<1>14. ASSUME NEW p \in Project, resetFleetProject(p) \/ RemoveLease(p) PROVE OwnersRun'
  BY <1>1, <1>14 DEF resetFleetProject, RemoveLease
<1>15. CASE Time \/ UNCHANGED vars
  BY <1>1, <1>15 DEF Time, vars
<1>. QED
  BY <1>2, <1>3, <1>4, <1>5, <1>6, <1>7, <1>8, <1>9, <1>12, <1>13, <1>14, <1>15 DEF Next

\* Whenever a Supervisor is told to stop, it takes all its Controllers along; one that
\* does not run any more owns none.
THEOREM StopsAreClean == Spec => []StopIsClean
<1>1. Init => OwnersRun
  BY ProcessTypes DEF Init, OwnersRun, StopIsClean, Stage, Supervises
<1>2. OwnersRun => StopIsClean
  BY DEF OwnersRun
<1>. QED
  BY <1>1, <1>2, OwnersStep, PTL DEF Spec

\* A non-empty set of naturals has its minimum.
LEMMA MinIsLeast ==
    ASSUME NEW S \in SUBSET Nat, S # {}
    PROVE  Min(S) \in S /\ \A x \in S : Min(S) =< x
<1>1. PICK x \in S : \A y \in S : ~ (<<y, x>> \in OpToRel(<, Nat))
  BY NatLessThanWellFounded, WFMin
<1>2. \A y \in S : x =< y
  <2>. SUFFICES ASSUME NEW y \in S, y < x PROVE FALSE
    OBVIOUS
  <2>1. <<y, x>> \in Nat \X Nat /\ <<y, x>>[1] < <<y, x>>[2]
    OBVIOUS
  <2>2. <<y, x>> \in {ss \in Nat \X Nat : ss[1] < ss[2]}
    BY <2>1
  <2>. QED
    BY <1>1, <2>2, Zenon DEF OpToRel
<1>. QED
  BY <1>2 DEF Min
-----------------------------------------------------------------------------
(* Histories of failures.                                                    *)

OldestFirst(times) == \A i, j \in 1..Len(times) : i =< j => times[j] =< times[i]
History(times) == times \in Seq(0..Window + 1) /\ OldestFirst(times)

\* The bounds of the restart policy.
LEMMA Bounds == MaxRestarts \in Nat /\ Window \in Nat \ {0} /\ StableAfter \in Nat \ {0}
BY FleetAssumption

\* A history is a sequence of ages that do not grow.
LEMMA HistoryFacts ==
    ASSUME NEW times, History(times)
    PROVE  /\ Window \in Nat /\ times \in Seq(0..Window + 1)
           /\ Len(times) \in Nat /\ DOMAIN times = 1..Len(times)
           /\ \A i \in 1..Len(times) : times[i] \in 0..Window + 1 /\ times[i] \in Int
           /\ \A i, j \in 1..Len(times) : i =< j => times[j] =< times[i]
<1>1. times \in Seq(0..Window + 1) /\ OldestFirst(times)
  BY DEF History
<1>2. /\ Len(times) \in Nat /\ DOMAIN times = 1..Len(times)
      /\ \A i \in 1..Len(times) : times[i] \in 0..Window + 1
  <2>. DEFINE S == 0..Window + 1
  <2>1. times \in Seq(S)
    BY <1>1
  <2>. HIDE DEF S
  <2>2. Len(times) \in Nat /\ DOMAIN times = 1..Len(times) /\ \A i \in 1..Len(times) : times[i] \in S
    BY <2>1
  <2>. QED
    BY <2>2 DEF S
<1>. QED
  BY <1>1, <1>2, Bounds DEF OldestFirst

\* A filter that keeps what is recent drops the first timestamps, up to one of them.
LEMMA RecentIsFilter ==
    ASSUME NEW times, History(times)
    PROVE  \E k \in 0..Len(times) :
               /\ \A i \in 1..Len(times) : times[i] =< Window <=> i > k
               /\ Recent(times) = SubSeq(times, k + 1, Len(times))
<1>. DEFINE recent == {i \in DOMAIN times : times[i] =< Window}
            n == Len(times)
<1>1. /\ n \in Nat /\ DOMAIN times = 1..n /\ \A i \in 1..n : times[i] \in Int
      /\ \A i, j \in 1..n : i =< j => times[j] =< times[i]
  BY HistoryFacts
<1>2. CASE recent = {}
  <2>1. \A i \in 1..n : times[i] =< Window <=> i > n
    BY <1>1, <1>2, HistoryFacts
  <2>2. Recent(times) = SubSeq(times, n + 1, n)
    BY <1>2 DEF Recent
  <2>. QED
    BY <1>1, <2>1, <2>2
<1>3. CASE recent # {}
  <2>1. recent \in SUBSET Nat
    BY <1>1
  <2>2. Min(recent) \in recent /\ \A i \in recent : Min(recent) =< i
    BY <1>3, <2>1, MinIsLeast
  <2>. DEFINE m == Min(recent)
  <2>3. Recent(times) = SubSeq(times, m, n)
    BY <1>3 DEF Recent
  <2>. HIDE DEF m
  <2>4. m \in 1..n /\ times[m] =< Window /\ \A i \in 1..n : times[i] =< Window => m =< i
    BY <1>1, <2>2 DEF m
  <2>. HIDE DEF recent
  <2>5. ASSUME NEW i \in 1..n PROVE times[i] =< Window <=> i > m - 1
    <3>1. i >= m => times[i] =< times[m]
      BY <1>1, <2>4
    <3>. QED
      BY <1>1, <2>4, <3>1, Bounds
  <2>6. m - 1 \in 0..n /\ (m - 1) + 1 = m
    BY <1>1, <2>4
  <2>. QED
    BY <2>3, <2>5, <2>6
<1>. QED
  BY <1>2, <1>3

\* The end of a history, element by element.
LEMMA EndOfHistory ==
    ASSUME NEW times, History(times), NEW k \in 0..Len(times)
    PROVE  LET s == SubSeq(times, k + 1, Len(times))
           IN  /\ History(s) /\ Len(s) = Len(times) - k
               /\ \A i \in 1..Len(times) - k : s[i] = times[i + k]
<1>. DEFINE n == Len(times)
            s == SubSeq(times, k + 1, n)
<1>1. n \in Nat /\ \A i \in 1..n : times[i] \in 0..Window + 1
  BY HistoryFacts
<1>2. /\ s \in Seq(0..Window + 1) /\ Len(s) = IF k + 1 =< n THEN n - (k + 1) + 1 ELSE 0
      /\ \A i \in 1..n - (k + 1) + 1 : s[i] = times[k + 1 + i - 1]
  <2>1. \A i \in k + 1..n : times[i] \in 0..Window + 1
    BY <1>1
  <2>. QED
    BY <1>1, <2>1, SubSeqProperties
<1>3. Len(s) = n - k /\ \A i \in 1..n - k : s[i] = times[i + k]
  BY <1>1, <1>2
<1>4. OldestFirst(s)
  <2>. HIDE DEF s
  <2>. SUFFICES ASSUME NEW i \in 1..Len(s), NEW j \in 1..Len(s), i =< j PROVE s[j] =< s[i]
    BY DEF OldestFirst
  <2>1. i + k \in 1..n /\ j + k \in 1..n /\ i + k =< j + k
    BY <1>1, <1>3
  <2>2. times[j + k] =< times[i + k]
    BY <2>1, HistoryFacts
  <2>. QED
    BY <1>1, <1>3, <2>2
<1>. QED
  BY <1>2, <1>3, <1>4 DEF History

\* What is recent, in one place: so many are old, the others are all recent, in their order.
LEMMA RecentEnd ==
    ASSUME NEW times, History(times)
    PROVE  \E k \in 0..Len(times) :
               /\ \A i \in 1..Len(times) : times[i] =< Window <=> i > k
               /\ History(Recent(times)) /\ Len(Recent(times)) = Len(times) - k
               /\ \A i \in 1..Len(times) - k : Recent(times)[i] = times[i + k]
<1>1. PICK k \in 0..Len(times) :
          /\ \A i \in 1..Len(times) : times[i] =< Window <=> i > k
          /\ Recent(times) = SubSeq(times, k + 1, Len(times))
  BY RecentIsFilter
<1>. QED
  BY <1>1, EndOfHistory

\* All that is recent is in the window.
LEMMA OnlyRecent ==
    ASSUME NEW times, History(times)
    PROVE  \A i \in 1..Len(Recent(times)) : Recent(times)[i] =< Window
<1>1. PICK k \in 0..Len(times) :
          /\ \A i \in 1..Len(times) : times[i] =< Window <=> i > k
          /\ Len(Recent(times)) = Len(times) - k
          /\ \A i \in 1..Len(times) - k : Recent(times)[i] = times[i + k]
  BY RecentEnd
<1>2. ASSUME NEW i \in 1..Len(Recent(times)) PROVE Recent(times)[i] =< Window
  <2>1. i \in 1..Len(times) - k /\ i + k \in 1..Len(times) /\ i + k > k
    BY <1>1, HistoryFacts
  <2>. QED
    BY <1>1, <2>1
<1>. QED
  BY <1>2

\* Two histories of equal length and elements are equal.
LEMMA SameHistory ==
    ASSUME NEW a, NEW b, History(a), History(b), Len(a) = Len(b),
           \A i \in 1..Len(a) : a[i] = b[i]
    PROVE  a = b
BY SeqEqual DEF History

\* Where all is recent, nothing is dropped.
LEMMA AllRecent ==
    ASSUME NEW times, History(times), \A i \in 1..Len(times) : times[i] =< Window
    PROVE  Recent(times) = times
<1>1. PICK k \in 0..Len(times) :
          /\ \A i \in 1..Len(times) : times[i] =< Window <=> i > k
          /\ History(Recent(times)) /\ Len(Recent(times)) = Len(times) - k
          /\ \A i \in 1..Len(times) - k : Recent(times)[i] = times[i + k]
  BY RecentEnd
<1>2. Len(times) \in Nat
  BY DEF History
<1>3. k = 0
  BY <1>1, <1>2
<1>. QED
  BY <1>1, <1>2, <1>3, SameHistory

\* Time passes for a history.
LEMMA OlderHistory ==
    ASSUME NEW times, History(times)
    PROVE  /\ History(Older(times)) /\ Len(Older(times)) = Len(times)
           /\ \A i \in 1..Len(times) :
                  Older(times)[i] = IF times[i] =< Window THEN times[i] + 1 ELSE times[i]
<1>1. /\ Len(times) \in Nat /\ DOMAIN times = 1..Len(times)
      /\ \A i \in 1..Len(times) : times[i] \in 0..Window + 1
  BY HistoryFacts
<1>2. \A i \in 1..Len(times) : Older(times)[i] = IF times[i] =< Window THEN times[i] + 1 ELSE times[i]
  BY <1>1 DEF Older
<1>3. Older(times) \in [1..Len(times) -> 0..Window + 1]
  <2>1. \A i \in 1..Len(times) : Older(times)[i] \in 0..Window + 1
    BY <1>1, <1>2, HistoryFacts
  <2>. QED
    BY <1>1, <2>1 DEF Older
<1>4. Older(times) \in Seq(0..Window + 1) /\ Len(Older(times)) = Len(times)
  <2>. DEFINE S == 0..Window + 1
  <2>1. Older(times) \in [1..Len(times) -> S]
    BY <1>3
  <2>. HIDE DEF S
  <2>2. Older(times) \in Seq(S) /\ Len(Older(times)) = Len(times)
    BY <1>1, <2>1
  <2>. QED
    BY <2>2 DEF S
<1>5. OldestFirst(Older(times))
  <2>1. ASSUME NEW i \in 1..Len(times), NEW j \in 1..Len(times), i =< j
        PROVE  Older(times)[j] =< Older(times)[i]
    <3>1. times[j] =< times[i]
      BY <2>1, HistoryFacts DEF OldestFirst
    <3>2. times[i] \in Nat /\ times[j] \in Nat /\ Window \in Nat
      BY <1>1, HistoryFacts
    <3>3. /\ Older(times)[i] = IF times[i] =< Window THEN times[i] + 1 ELSE times[i]
          /\ Older(times)[j] = IF times[j] =< Window THEN times[j] + 1 ELSE times[j]
      BY <1>2
    <3>. QED
      BY <3>1, <3>2, <3>3
  <2>. QED
    BY <1>1, <1>4, <2>1 DEF OldestFirst
<1>. QED
  BY <1>2, <1>4, <1>5 DEF History

\* What is recent after a while is recent now: old failures need not be kept.
LEMMA RecentLater ==
    ASSUME NEW times, History(times)
    PROVE  Recent(Older(times)) = Recent(Older(Recent(times)))
<1>. DEFINE n == Len(times)
            r == Recent(times)
            o == Older(times)
            q == Older(r)
<1>1. PICK k \in 0..n :
          /\ \A i \in 1..n : times[i] =< Window <=> i > k
          /\ History(r) /\ Len(r) = n - k
          /\ \A i \in 1..n - k : r[i] = times[i + k]
  BY RecentEnd
<1>2. /\ History(o) /\ Len(o) = n
      /\ \A i \in 1..n : o[i] = IF times[i] =< Window THEN times[i] + 1 ELSE times[i]
  BY OlderHistory
<1>3. /\ History(q) /\ Len(q) = n - k
      /\ \A i \in 1..n - k : q[i] = IF r[i] =< Window THEN r[i] + 1 ELSE r[i]
  BY <1>1, OlderHistory
<1>. HIDE DEF r, o, q
<1>4. Window \in Nat /\ n \in Nat /\ \A i \in 1..n : times[i] \in Int
  BY HistoryFacts
<1>5. PICK l \in 0..n :
          /\ \A i \in 1..n : o[i] =< Window <=> i > l
          /\ History(Recent(o)) /\ Len(Recent(o)) = n - l
          /\ \A i \in 1..n - l : Recent(o)[i] = o[i + l]
  <2>1. PICK l \in 0..Len(o) :
          /\ \A i \in 1..Len(o) : o[i] =< Window <=> i > l
          /\ History(Recent(o)) /\ Len(Recent(o)) = Len(o) - l
          /\ \A i \in 1..Len(o) - l : Recent(o)[i] = o[i + l]
    BY <1>2, RecentEnd
  <2>. QED
    BY <1>2, <2>1
<1>6. PICK m \in 0..n - k :
          /\ \A i \in 1..n - k : q[i] =< Window <=> i > m
          /\ History(Recent(q)) /\ Len(Recent(q)) = n - k - m
          /\ \A i \in 1..n - k - m : Recent(q)[i] = q[i + m]
  <2>1. PICK m \in 0..Len(q) :
          /\ \A i \in 1..Len(q) : q[i] =< Window <=> i > m
          /\ History(Recent(q)) /\ Len(Recent(q)) = Len(q) - m
          /\ \A i \in 1..Len(q) - m : Recent(q)[i] = q[i + m]
    BY <1>3, RecentEnd
  <2>. QED
    BY <1>3, <2>1
<1>7. ASSUME NEW i \in 1..n - k PROVE q[i] = o[i + k]
  <2>1. i + k \in 1..n /\ r[i] = times[i + k]
    BY <1>1, <1>4
  <2>. QED
    BY <1>2, <1>3, <2>1
<1>8. k =< l
  <2>. SUFFICES ASSUME l < k PROVE FALSE
    BY <1>4
  <2>1. k \in 1..n /\ o[k] =< Window
    BY <1>4, <1>5
  <2>. QED
    BY <1>1, <1>2, <1>4, <2>1
<1>9. l = m + k
  <2>1. ASSUME NEW i \in 1..n - k PROVE i + k > l <=> i > m
    <3>1. i + k \in 1..n /\ q[i] = o[i + k]
      BY <1>4, <1>7
    <3>. QED
      BY <1>5, <1>6, <3>1
  <2>2. ~(l < m + k)
    <3>. SUFFICES ASSUME l < m + k PROVE FALSE
      OBVIOUS
    <3>1. m \in 1..n - k
      BY <1>4, <1>8
    <3>2. m + k > l <=> m > m
      BY <2>1, <3>1
    <3>. QED
      BY <1>4, <3>2
  <2>3. ~(l > m + k)
    <3>. SUFFICES ASSUME l > m + k PROVE FALSE
      OBVIOUS
    <3>1. l - k \in 1..n - k
      BY <1>4
    <3>2. (l - k) + k = l /\ l - k > m
      BY <1>4
    <3>3. (l - k) + k > l <=> l - k > m
      BY <2>1, <3>1
    <3>. QED
      BY <1>4, <3>2, <3>3
  <2>. QED
    BY <1>4, <2>2, <2>3
<1>10. \A i \in 1..n - l : Recent(q)[i] = Recent(o)[i]
  BY <1>4, <1>5, <1>6, <1>7, <1>9
<1>11. Recent(o) = Recent(q)
  BY <1>4, <1>5, <1>6, <1>9, <1>10, SameHistory
<1>. QED
  BY <1>11 DEF o, q, r

\* One more failure: what is kept is recent, and all of it within the budget.
LEMMA OneMoreFailure ==
    ASSUME NEW times, History(times), \A i \in 1..Len(times) : times[i] =< Window
    PROVE  /\ History(Kept(Append(times, 0))) /\ Recent(Kept(Append(times, 0))) = Kept(Append(times, 0))
           /\ Len(Append(times, 0)) = Len(times) + 1
           /\ ~(Len(Append(times, 0)) > MaxRestarts) =>
                  /\ Kept(Append(times, 0)) = Append(times, 0)
                  /\ Len(Append(times, 0)) =< MaxRestarts
<1>. DEFINE a == Append(times, 0)
            n == Len(times)
<1>1. /\ times \in Seq(0..Window + 1) /\ n \in Nat /\ Window \in Nat
      /\ MaxRestarts \in Nat /\ 0 \in 0..Window + 1
      /\ \A i \in 1..n : times[i] \in 0..Window
      /\ \A i, j \in 1..n : i =< j => times[j] =< times[i]
  BY HistoryFacts, Bounds
<1>2. /\ a \in Seq(0..Window + 1) /\ Len(a) = n + 1 /\ a[n + 1] = 0
      /\ \A i \in 1..n : a[i] = times[i]
  BY <1>1, AppendProperties
<1>. HIDE DEF a
<1>3. History(a) /\ \A i \in 1..n + 1 : a[i] =< Window
  <2>1. \A i \in 1..n + 1 : (i \in 1..n /\ a[i] = times[i]) \/ (i = n + 1 /\ a[i] = 0)
    BY <1>1, <1>2
  <2>2. \A i \in 1..n + 1 : a[i] \in 0..Window
    BY <1>1, <2>1
  <2>3. ASSUME NEW i \in 1..n + 1, NEW j \in 1..n + 1, i =< j PROVE a[j] =< a[i]
    <3>1. CASE j = n + 1
      <4>1. a[j] = 0 /\ a[i] \in 0..Window
        BY <1>2, <2>2, <3>1
      <4>. QED
        BY <1>1, <4>1
    <3>2. CASE j # n + 1
      <4>1. i \in 1..n /\ j \in 1..n
        BY <1>1, <2>3, <3>2
      <4>2. a[i] = times[i] /\ a[j] = times[j]
        BY <1>2, <4>1
      <4>. QED
        BY <1>1, <2>3, <4>1, <4>2
    <3>. QED
      BY <3>1, <3>2
  <2>. QED
    BY <1>1, <1>2, <2>2, <2>3 DEF History, OldestFirst
<1>. DEFINE c == Len(a)
            b == IF c > MaxRestarts THEN c - MaxRestarts ELSE 1
<1>4. c = n + 1
  BY <1>2
<1>5. Kept(a) = SubSeq(a, b, c)
  BY DEF Kept
<1>. HIDE DEF c
<1>6. b - 1 \in 0..c /\ (b - 1) + 1 = b /\ (~(c > MaxRestarts) => b - 1 = 0)
  BY <1>1, <1>4
<1>. HIDE DEF b
<1>. DEFINE k == b - 1
<1>7. /\ History(Kept(a)) /\ Len(Kept(a)) = c - k
      /\ \A i \in 1..c - k : Kept(a)[i] = a[i + k]
  <2>1. k \in 0..Len(a) /\ Kept(a) = SubSeq(a, k + 1, Len(a))
    BY <1>5, <1>6 DEF c
  <2>. HIDE DEF k
  <2>. QED
    BY <1>3, <2>1, EndOfHistory DEF c
<1>. HIDE DEF k
<1>8. k \in 0..c /\ (~(c > MaxRestarts) => k = 0)
  BY <1>6 DEF k
<1>9. ASSUME NEW i \in 1..Len(Kept(a)) PROVE Kept(a)[i] =< Window
  <2>1. i \in 1..c - k /\ i + k \in 1..n + 1
    BY <1>1, <1>7, <1>4, <1>8
  <2>. QED
    BY <1>3, <1>7, <2>1
<1>10. Recent(Kept(a)) = Kept(a)
  BY <1>7, <1>9, AllRecent
<1>11. ASSUME ~(c > MaxRestarts) PROVE Kept(a) = a
  <2>1. k = 0
    BY <1>11, <1>8
  <2>2. Len(Kept(a)) = Len(a) /\ \A i \in 1..Len(Kept(a)) : Kept(a)[i] = a[i]
    BY <1>1, <1>2, <1>7, <1>4, <2>1
  <2>. QED
    BY <1>3, <1>7, <2>2, SameHistory
<1>. QED
  BY <1>1, <1>2, <1>7, <1>10, <1>11, <1>4 DEF a, c

\* The first failure is kept, even if it is already one too many.
LEMMA FirstFailure == Kept(<<0>>) = <<0>>
<1>. DEFINE a == <<0>>
<1>1. a \in Seq(0..Window + 1) /\ Len(a) = 1 /\ a[1] = 0
  BY Bounds
<1>2. History(a)
  BY <1>1, Bounds DEF History, OldestFirst
<1>3. Kept(a) = SubSeq(a, 1, 1)
  BY <1>1, Bounds DEF Kept
<1>. HIDE DEF a
<1>4. /\ History(SubSeq(a, 1, 1)) /\ Len(SubSeq(a, 1, 1)) = 1
      /\ SubSeq(a, 1, 1)[1] = a[1]
  <2>. DEFINE k == 0
  <2>1. k \in 0..Len(a) /\ k + 1 = 1 /\ Len(a) - k = 1 /\ 1 \in 1..Len(a) - k /\ 1 + k = 1
    BY <1>1
  <2>. HIDE DEF k
  <2>2. /\ History(SubSeq(a, k + 1, Len(a))) /\ Len(SubSeq(a, k + 1, Len(a))) = Len(a) - k
        /\ \A i \in 1..Len(a) - k : SubSeq(a, k + 1, Len(a))[i] = a[i + k]
    BY <1>2, <2>1, EndOfHistory
  <2>. QED
    BY <1>1, <2>1, <2>2
<1>5. Kept(a) = a
  BY <1>1, <1>2, <1>3, <1>4, SameHistory
<1>. QED
  BY <1>5 DEF a

-----------------------------------------------------------------------------
(* What a Supervisor knows of the failures of a project.                     *)

\* What the fields of a record say agrees with the failures there were.
Agrees(restarts, phase, known) ==
    /\ History(restarts) /\ Recent(restarts) = known
    /\ phase # "tripped" => Len(restarts) =< MaxRestarts

\* A record of a project, whatever is in its fields.
IsRuntime(r) ==
    r = [field \in {"phase", "restarts", "age", "due", "child"} |-> r[field]]

\* What a record says without its child.
LEMMA Childless ==
    \A r : IsRuntime(r) =>
        LET d == [r EXCEPT !.child = Nobody, !.age = 0]
        IN  IsRuntime(d) /\ d.child = Nobody /\ d.restarts = r.restarts /\ d.phase = r.phase
<1>. SUFFICES ASSUME NEW r, IsRuntime(r)
              PROVE  LET d == [r EXCEPT !.child = Nobody, !.age = 0]
                     IN  IsRuntime(d) /\ d.child = Nobody /\ d.restarts = r.restarts /\ d.phase = r.phase
  OBVIOUS
<1>. DEFINE d == [r EXCEPT !.child = Nobody, !.age = 0]
<1>1. DOMAIN r = {"phase", "restarts", "age", "due", "child"}
  BY DEF IsRuntime
<1>2. /\ d.child = Nobody /\ d.restarts = r.restarts /\ d.phase = r.phase /\ d.age = 0 /\ d.due = r.due
      /\ d = [f \in {"phase", "restarts", "age", "due", "child"} |-> d[f]]
  BY <1>1
<1>. HIDE DEF d
<1>3. IsRuntime(d)
  BY <1>2 DEF IsRuntime
<1>. QED
  BY <1>2, <1>3 DEF d

\* No failure is known.
LEMMA NoFailures == IsRuntime(pendingRuntime) /\ \A phase : Agrees(<<>>, phase, <<>>)
<1>1. History(<<>>) /\ Len(<<>>) = 0
  BY DEF History, OldestFirst
<1>2. Recent(<<>>) = <<>>
  BY <1>1, AllRecent
<1>3. IsRuntime(pendingRuntime)
  BY DEF IsRuntime, pendingRuntime
<1>. QED
  BY <1>1, <1>2, <1>3, Bounds DEF Agrees

\* The phase may change unless a circuit closes.
LEMMA PhaseChanges ==
    ASSUME NEW restarts, NEW phase, NEW known, Agrees(restarts, phase, known), NEW next,
           phase # "tripped" \/ next = "tripped"
    PROVE  Agrees(restarts, next, known)
BY DEF Agrees

\* Time passes.
LEMMA KnowledgeAges ==
    ASSUME NEW restarts, NEW phase, NEW known, Agrees(restarts, phase, known)
    PROVE  Agrees(Older(restarts), phase, Recent(Older(known)))
BY OlderHistory, RecentLater DEF Agrees

\* decideRestart forgets what may be forgotten, and opens the circuit in time.
LEMMA Restarts ==
    ASSUME NEW r, IsRuntime(r), NEW known
    PROVE  LET d == decideRestart(r)
           IN  /\ IsRuntime(d) /\ d.child = r.child
               /\ Agrees(r.restarts, r.phase, known) =>
                      Agrees(d.restarts, d.phase,
                             IF r.age >= StableAfter THEN <<0>> ELSE Kept(Append(known, 0)))
<1>. DEFINE d == decideRestart(r)
            history == IF r.age >= StableAfter THEN <<>> ELSE Recent(r.restarts)
            times == Append(history, 0)
            due == LET backoff == InitialBackoff * 2^(Len(times) - 1)
                   IN  IF backoff < MaxBackoff THEN backoff ELSE MaxBackoff
<1>1. d = IF Len(times) > MaxRestarts
            THEN [r EXCEPT !.phase = "tripped", !.restarts = Kept(times), !.due = 0]
            ELSE [r EXCEPT !.phase = "backoff", !.restarts = times, !.due = due]
  BY DEF decideRestart
<1>. HIDE DEF d, times, due, history
<1>2. /\ IsRuntime(d) /\ d.child = r.child
      /\ IF Len(times) > MaxRestarts THEN d.phase = "tripped" /\ d.restarts = Kept(times)
                                     ELSE d.phase = "backoff" /\ d.restarts = times
  BY <1>1 DEF IsRuntime
<1>3. ASSUME Agrees(r.restarts, r.phase, known)
      PROVE  Agrees(d.restarts, d.phase,
                    IF r.age >= StableAfter THEN <<0>> ELSE Kept(Append(known, 0)))
  <2>1. History(history) /\ \A i \in 1..Len(history) : history[i] =< Window
    <3>1. CASE r.age >= StableAfter
      <4>1. history = <<>>
        BY <3>1 DEF history
      <4>. QED
        BY <4>1 DEF History, OldestFirst
    <3>2. CASE ~(r.age >= StableAfter)
      <4>1. history = Recent(r.restarts) /\ History(r.restarts)
        BY <1>3, <3>2 DEF history, Agrees
      <4>. QED
        BY <4>1, RecentEnd, OnlyRecent
    <3>. QED
      BY <3>1, <3>2
  <2>2. /\ History(Kept(times)) /\ Recent(Kept(times)) = Kept(times)
        /\ ~(Len(times) > MaxRestarts) => Kept(times) = times /\ Len(times) =< MaxRestarts
    BY <2>1, OneMoreFailure DEF times
  <2>3. Agrees(d.restarts, d.phase, Kept(times))
    BY <1>2, <2>2 DEF Agrees
  <2>4. Kept(times) = IF r.age >= StableAfter THEN <<0>> ELSE Kept(Append(known, 0))
    <3>1. CASE r.age >= StableAfter
      <4>1. times = <<0>>
        <5>1. history = <<>>
          BY <3>1 DEF history
        <5>. QED
          BY <5>1 DEF times
      <4>. QED
        BY <3>1, <4>1, FirstFailure
    <3>2. CASE ~(r.age >= StableAfter)
      BY <1>3, <3>2 DEF times, history, Agrees
    <3>. QED
      BY <3>1, <3>2
  <2>. QED
    BY <2>3, <2>4
<1>. QED
  BY <1>2, <1>3 DEF d

-----------------------------------------------------------------------------
(* Who knows it.                                                             *)

Tables ==
    /\ sup \in [Supervisor -> Stage] /\ blind \in [Project -> BOOLEAN]
    /\ DOMAIN mem = Supervisor /\ DOMAIN fresh = Supervisor /\ DOMAIN disk = Project /\ DOMAIN failures = Project
    /\ \A s \in Supervisor : DOMAIN mem[s] = Project /\ \A p \in Project : IsRuntime(mem[s][p])
    /\ \A p \in Project : IsRuntime(disk[p])

\* Whoever supervises knows of every failure in the window, and so does the file of the
\* next one, unless what was known was lost.  Two that supervise at once know half each.
Informed ==
    /\ Tables
    /\ \A s, t \in Supervisor, p \in Project : Supervises(s) /\ Supervises(t) /\ ~blind[p] => s = t
    /\ \A s \in Supervisor, p \in Project :
        /\ mem[s][p].child # Nobody => Supervises(s) /\ mem[s][p].phase \in {"running", "stopping"}
        /\ p \in fresh[s] => ~Supervises(s) /\ mem[s][p].restarts = <<>>
        /\ Supervises(s) /\ ~blind[p] => Agrees(mem[s][p].restarts, mem[s][p].phase, failures[p])
    /\ \A p \in Project :
        /\ disk[p].child = Nobody
        /\ ~blind[p] => Agrees(disk[p].restarts, disk[p].phase, failures[p])

\* What a write of the table leaves on disk.
LEMMA CheckpointStep ==
    ASSUME Informed, NEW s \in Supervisor, Checkpoint(s),
           \A p \in Project : IsRuntime(mem'[s][p])
    PROVE  /\ DOMAIN disk' = Project /\ blind' \in [Project -> BOOLEAN]
           /\ \A p \in Project :
               /\ IsRuntime(disk'[p]) /\ disk'[p].child = Nobody
               /\ ~blind'[p] => /\ ~blind[p] /\ disk'[p].restarts = mem'[s][p].restarts
                                /\ disk'[p].phase = mem'[s][p].phase
<1>1. CASE disk' = Saved(s) /\ UNCHANGED blind
  <2>1. \A p \in Project : disk'[p] = [mem'[s][p] EXCEPT !.child = Nobody, !.age = 0]
    BY <1>1 DEF Saved
  <2>. QED
    BY <1>1, <2>1, Childless DEF Saved, Informed, Tables
<1>2. CASE UNCHANGED disk /\ blind' = [p \in Project |-> TRUE]
  BY <1>2 DEF Informed, Tables
<1>. QED
  BY <1>1, <1>2 DEF Checkpoint

\* The Supervisor changes its table and writes it.
LEMMA Writes ==
    ASSUME Informed, NEW s \in Supervisor, Supervises(s), Supervises(s)', UNCHANGED fresh,
           sup' \in [Supervisor -> Stage], \A t \in Supervisor : t # s => sup'[t] = sup[t],
           DOMAIN mem' = Supervisor, DOMAIN mem'[s] = Project, DOMAIN failures' = Project,
           \A t \in Supervisor : t # s => mem'[t] = mem[t],
           \A p \in Project :
               /\ IsRuntime(mem'[s][p])
               /\ mem'[s][p].child # Nobody => mem'[s][p].phase \in {"running", "stopping"}
               /\ ~blind[p] => Agrees(mem'[s][p].restarts, mem'[s][p].phase, failures'[p]),
           Checkpoint(s)
    PROVE  Informed'
<1>1. /\ DOMAIN disk' = Project /\ blind' \in [Project -> BOOLEAN]
      /\ \A p \in Project :
          /\ IsRuntime(disk'[p]) /\ disk'[p].child = Nobody
          /\ ~blind'[p] => /\ ~blind[p] /\ disk'[p].restarts = mem'[s][p].restarts
                           /\ disk'[p].phase = mem'[s][p].phase
  BY CheckpointStep
<1>2. \A t \in Supervisor : Supervises(t)' <=> Supervises(t)
  BY DEF Supervises
<1>3. Tables'
  BY <1>1 DEF Informed, Tables
<1>4. \A t, u \in Supervisor, p \in Project : Supervises(t)' /\ Supervises(u)' /\ ~blind'[p] => t = u
  BY <1>1, <1>2 DEF Informed
<1>5. \A t \in Supervisor, p \in Project :
          /\ mem'[t][p].child # Nobody => Supervises(t)' /\ mem'[t][p].phase \in {"running", "stopping"}
          /\ p \in fresh'[t] => ~Supervises(t)' /\ mem'[t][p].restarts = <<>>
          /\ Supervises(t)' /\ ~blind'[p] => Agrees(mem'[t][p].restarts, mem'[t][p].phase, failures'[p])
  <2>. SUFFICES ASSUME NEW t \in Supervisor, NEW p \in Project
                PROVE  /\ mem'[t][p].child # Nobody =>
                              Supervises(t)' /\ mem'[t][p].phase \in {"running", "stopping"}
                       /\ p \in fresh'[t] => ~Supervises(t)' /\ mem'[t][p].restarts = <<>>
                       /\ Supervises(t)' /\ ~blind'[p] =>
                              Agrees(mem'[t][p].restarts, mem'[t][p].phase, failures'[p])
    OBVIOUS
  <2>1. CASE t = s
    BY <1>1, <2>1 DEF Informed
  <2>2. CASE t # s
    <3>1. mem'[t] = mem[t] /\ ~(Supervises(t)' /\ ~blind'[p])
      BY <1>1, <1>2, <2>2 DEF Informed
    <3>. QED
      BY <1>2, <3>1 DEF Informed
  <2>. QED
    BY <2>1, <2>2
<1>6. \A p \in Project : disk'[p].child = Nobody
          /\ (~blind'[p] => Agrees(disk'[p].restarts, disk'[p].phase, failures'[p]))
  BY <1>1
<1>. QED
  BY <1>3, <1>4, <1>5, <1>6 DEF Informed

\* It changes the record of one project.
LEMMA WritesOne ==
    ASSUME Informed, NEW s \in Supervisor, NEW p \in Project, Supervises(s), UNCHANGED sup,
           NEW r, Becomes(s, p, r), IsRuntime(r), r.child # Nobody => r.phase \in {"running", "stopping"},
           DOMAIN failures' = Project, \A q \in Project : q # p => failures'[q] = failures[q],
           ~blind[p] => Agrees(r.restarts, r.phase, failures'[p]),
           Checkpoint(s)
    PROVE  Informed'
<1>1. /\ DOMAIN mem' = Supervisor /\ DOMAIN mem'[s] = Project /\ UNCHANGED fresh
      /\ \A t \in Supervisor : t # s => mem'[t] = mem[t]
      /\ mem'[s][p] = r /\ \A q \in Project : q # p => mem'[s][q] = mem[s][q]
  BY DEF Becomes, Informed, Tables
<1>2. \A q \in Project :
          /\ IsRuntime(mem'[s][q])
          /\ mem'[s][q].child # Nobody => mem'[s][q].phase \in {"running", "stopping"}
          /\ ~blind[q] => Agrees(mem'[s][q].restarts, mem'[s][q].phase, failures'[q])
  BY <1>1 DEF Informed, Tables
<1>3. sup' \in [Supervisor -> Stage] /\ Supervises(s)'
  BY DEF Informed, Tables, Supervises
<1>. QED
  BY <1>1, <1>2, <1>3, Writes

\* It changes the phase of a project whose circuit is not open.
LEMMA WritesPhase ==
    ASSUME Informed, NEW s \in Supervisor, NEW p \in Project, Supervises(s),
           UNCHANGED <<sup, failures>>, mem[s][p].phase # "tripped",
           NEW r, IsRuntime(r), Becomes(s, p, r), r.restarts = mem[s][p].restarts,
           r.child # Nobody => r.phase \in {"running", "stopping"}, Checkpoint(s)
    PROVE  Informed'
<1>1. ~blind[p] => Agrees(r.restarts, r.phase, failures'[p])
  <2>1. ~blind[p] => Agrees(mem[s][p].restarts, mem[s][p].phase, failures[p])
    BY DEF Informed
  <2>. QED
    BY <2>1, PhaseChanges
<1>2. DOMAIN failures' = Project
  BY DEF Informed, Tables
<1>. QED
  BY <1>1, <1>2, WritesOne

\* A child ended, or none was made.
LEMMA ExitedStep ==
    ASSUME Informed, NEW s \in Supervisor, NEW p \in Project, Supervises(s), UNCHANGED sup,
           NEW x, IsRuntime(x), x.restarts = mem[s][p].restarts, x.phase = mem[s][p].phase,
           x.phase # "tripped", Exited(s, p, x)
    PROVE  Informed'
<1>. DEFINE d == IF sup[s] = "running" THEN decideRestart(x) ELSE [x EXCEPT !.phase = "stopped", !.due = 0]
            r == [d EXCEPT !.child = Nobody, !.age = 0]
<1>1. /\ Becomes(s, p, r) /\ Checkpoint(s)
      /\ failures' = [failures EXCEPT ![p] = IF sup[s] # "running" THEN @
                                            ELSE IF x.age >= StableAfter THEN <<0>> ELSE Kept(Append(@, 0))]
  BY DEF Exited
<1>2. ~blind[p] => Agrees(x.restarts, x.phase, failures[p])
  BY DEF Informed
<1>3. /\ DOMAIN failures' = Project /\ \A q \in Project : q # p => failures'[q] = failures[q]
      /\ failures'[p] = IF sup[s] # "running" THEN failures[p]
                        ELSE IF x.age >= StableAfter THEN <<0>> ELSE Kept(Append(failures[p], 0))
  BY <1>1 DEF Informed, Tables
<1>4. IsRuntime(d) /\ (~blind[p] => Agrees(d.restarts, d.phase, failures'[p]))
  <2>1. CASE sup[s] = "running"
    <3>1. d = decideRestart(x) /\ failures'[p] = IF x.age >= StableAfter THEN <<0>> ELSE Kept(Append(failures[p], 0))
      BY <1>3, <2>1
    <3>. HIDE DEF d
    <3>. QED
      BY <1>2, <3>1, Restarts
  <2>2. CASE sup[s] # "running"
    <3>1. d = [x EXCEPT !.phase = "stopped", !.due = 0] /\ failures'[p] = failures[p]
      BY <1>3, <2>2
    <3>. HIDE DEF d
    <3>2. IsRuntime(d) /\ d.restarts = x.restarts
      BY <3>1 DEF IsRuntime
    <3>. QED
      BY <1>2, <3>1, <3>2, PhaseChanges
  <2>. QED
    BY <2>1, <2>2
<1>. HIDE DEF d
<1>5. IsRuntime(r) /\ r.child = Nobody /\ r.restarts = d.restarts /\ r.phase = d.phase
  BY <1>4, Childless
<1>. HIDE DEF r
<1>. QED
  BY <1>1, <1>3, <1>4, <1>5, WritesOne

\* The records that the operations of one project write.
LEMMA RecordEdits ==
    ASSUME NEW r, IsRuntime(r)
    PROVE  /\ \A f \in Phase : /\ IsRuntime([r EXCEPT !.phase = f])
                               /\ [r EXCEPT !.phase = f].restarts = r.restarts
                               /\ [r EXCEPT !.phase = f].child = r.child /\ [r EXCEPT !.phase = f].phase = f
           /\ \A f \in Phase : LET d == [r EXCEPT !.phase = f, !.due = 0]
                               IN  IsRuntime(d) /\ d.restarts = r.restarts /\ d.child = r.child /\ d.phase = f
           /\ LET d == [r EXCEPT !.age = 0]
              IN  IsRuntime(d) /\ d.restarts = r.restarts /\ d.child = r.child /\ d.phase = r.phase /\ d.age = 0
           /\ LET d == restoredRuntime(r)
              IN  IsRuntime(d) /\ d.child = r.child /\ d.restarts = r.restarts
           /\ LET d == unselectedRuntime(r)
              IN  IsRuntime(d) /\ d.child = r.child /\ d.restarts = r.restarts
           /\ LET d == Later(r)
              IN  IsRuntime(d) /\ d.child = r.child /\ d.phase = r.phase /\ d.restarts = Older(r.restarts)
<1>1. \A f \in Phase : /\ IsRuntime([r EXCEPT !.phase = f])
                       /\ [r EXCEPT !.phase = f].restarts = r.restarts
                       /\ [r EXCEPT !.phase = f].child = r.child /\ [r EXCEPT !.phase = f].phase = f
  BY DEF IsRuntime
<1>2. \A f \in Phase : LET d == [r EXCEPT !.phase = f, !.due = 0]
                       IN  IsRuntime(d) /\ d.restarts = r.restarts /\ d.child = r.child /\ d.phase = f
  BY DEF IsRuntime
<1>3. LET d == [r EXCEPT !.age = 0]
      IN  IsRuntime(d) /\ d.restarts = r.restarts /\ d.child = r.child /\ d.phase = r.phase /\ d.age = 0
  BY DEF IsRuntime
<1>4. LET d == restoredRuntime(r) IN IsRuntime(d) /\ d.child = r.child /\ d.restarts = r.restarts
  BY DEF IsRuntime, restoredRuntime
<1>5. LET d == unselectedRuntime(r) IN IsRuntime(d) /\ d.child = r.child /\ d.restarts = r.restarts
  BY DEF IsRuntime, unselectedRuntime
<1>6. LET d == Later(r)
      IN  IsRuntime(d) /\ d.child = r.child /\ d.phase = r.phase /\ d.restarts = Older(r.restarts)
  BY DEF IsRuntime, Later
<1>. QED
  BY <1>1, <1>2, <1>3, <1>4, <1>5, <1>6

\* The operations of one project.
LEMMA ProjectStep ==
    ASSUME Informed, NEW s \in Supervisor, NEW p \in Project,
           Adopt(s, p) \/ MalformedLease(s, p) \/ AdoptedEnds(s, p) \/ handleOwnedExit(s, p)
             \/ (\E c \in Controller : spawnProject(s, p, c))
             \/ (Spawns(s, p) /\ Exited(s, p, [mem[s][p] EXCEPT !.age = 0]) /\ UNCHANGED sup)
    PROVE  Informed'
<1>. DEFINE r == mem[s][p]
<1>1. IsRuntime(r) /\ (r.child # Nobody => Supervises(s) /\ r.phase \in {"running", "stopping"})
  BY DEF Informed, Tables
<1>2. MayStart(s, p) => Supervises(s) /\ r.phase \in {"pending", "backoff"}
  BY DEF MayStart, Supervises
<1>3. Handles(s) => Supervises(s)
  BY DEF Handles, Supervises
<1>. HIDE DEF r
<1>4. CASE Adopt(s, p)
  <2>. DEFINE d == [r EXCEPT !.phase = "adopted", !.due = 0]
  <2>1. /\ MayStart(s, p) /\ Becomes(s, p, d) /\ Checkpoint(s)
        /\ UNCHANGED <<sup, failures>>
    BY <1>4 DEF Adopt, r
  <2>2. IsRuntime(d) /\ d.restarts = r.restarts /\ d.child = r.child
    BY <1>1 DEF IsRuntime
  <2>. HIDE DEF d
  <2>3. Supervises(s) /\ r.phase # "tripped" /\ d.child = Nobody
    BY <1>1, <1>2, <2>1, <2>2
  <2>. QED
    BY <2>1, <2>2, <2>3, WritesPhase DEF r
<1>5. CASE MalformedLease(s, p)
  <2>. DEFINE d == [r EXCEPT !.phase = "error", !.due = 0]
  <2>1. /\ MayStart(s, p) \/ (Handles(s) /\ r.phase = "adopted")
        /\ Becomes(s, p, d) /\ Checkpoint(s) /\ UNCHANGED <<sup, failures>>
    BY <1>5 DEF MalformedLease, r
  <2>2. IsRuntime(d) /\ d.restarts = r.restarts /\ d.child = r.child
    BY <1>1 DEF IsRuntime
  <2>. HIDE DEF d
  <2>3. Supervises(s) /\ r.phase # "tripped" /\ d.child = Nobody
    BY <1>1, <1>2, <1>3, <2>1, <2>2
  <2>. QED
    BY <2>1, <2>2, <2>3, WritesPhase DEF r
<1>6. CASE AdoptedEnds(s, p)
  <2>. DEFINE d == [r EXCEPT !.phase = "pending"]
  <2>1. /\ Handles(s) /\ r.phase = "adopted"
        /\ Becomes(s, p, d) /\ Checkpoint(s) /\ UNCHANGED <<sup, failures>>
    BY <1>6 DEF AdoptedEnds, r
  <2>2. IsRuntime(d) /\ d.restarts = r.restarts /\ d.child = r.child
    BY <1>1 DEF IsRuntime
  <2>. HIDE DEF d
  <2>3. Supervises(s) /\ r.phase # "tripped" /\ d.child = Nobody
    BY <1>1, <1>3, <2>1, <2>2
  <2>. QED
    BY <2>1, <2>2, <2>3, WritesPhase DEF r
<1>7. CASE handleOwnedExit(s, p)
  <2>1. /\ r.child # Nobody /\ Exited(s, p, r) /\ UNCHANGED sup
    BY <1>7 DEF handleOwnedExit, r
  <2>2. Supervises(s) /\ r.phase # "tripped"
    BY <1>1, <2>1
  <2>. QED
    BY <1>1, <2>1, <2>2, ExitedStep DEF r
<1>8. ASSUME NEW c \in Controller, spawnProject(s, p, c) PROVE Informed'
  <2>. DEFINE d == [r EXCEPT !.phase = "running", !.age = 0, !.due = 0, !.child = c]
  <2>1. /\ MayStart(s, p) /\ Becomes(s, p, d) /\ Checkpoint(s)
        /\ UNCHANGED <<sup, failures>>
    BY <1>8 DEF spawnProject, Spawns, r
  <2>2. IsRuntime(d) /\ d.restarts = r.restarts /\ d.phase = "running"
    BY <1>1 DEF IsRuntime
  <2>. HIDE DEF d
  <2>3. Supervises(s) /\ r.phase # "tripped"
    BY <1>2, <2>1
  <2>. QED
    BY <2>1, <2>2, <2>3, WritesPhase DEF r
<1>9. CASE Spawns(s, p) /\ Exited(s, p, [mem[s][p] EXCEPT !.age = 0]) /\ UNCHANGED sup
  <2>. DEFINE d == [r EXCEPT !.age = 0]
  <2>1. MayStart(s, p) /\ Exited(s, p, d) /\ UNCHANGED sup
    BY <1>9 DEF Spawns, r
  <2>2. IsRuntime(d) /\ d.restarts = r.restarts /\ d.phase = r.phase
    BY <1>1, RecordEdits
  <2>. HIDE DEF d
  <2>3. Supervises(s) /\ r.phase # "tripped"
    BY <1>2, <2>1
  <2>. QED
    BY <2>1, <2>2, <2>3, ExitedStep DEF r
<1>. QED
  BY <1>4, <1>5, <1>6, <1>7, <1>8, <1>9

\* A Supervisor is gone, with its memory.
LEMMA Ended ==
    ASSUME Informed, NEW s \in Supervisor, sup' = [sup EXCEPT ![s] = "off"], Forgets(s),
           Supervises(s) \/ UNCHANGED <<disk, failures, blind>>, \A p \in Project : blind[p] => blind'[p],
           DOMAIN disk' = Project, blind' \in [Project -> BOOLEAN], DOMAIN failures' = Project,
           \A p \in Project :
               /\ IsRuntime(disk'[p]) /\ disk'[p].child = Nobody
               /\ ~blind'[p] => Agrees(disk'[p].restarts, disk'[p].phase, failures'[p])
    PROVE  Informed'
<1>1. /\ DOMAIN mem' = Supervisor /\ mem'[s] = [p \in Project |-> pendingRuntime]
      /\ DOMAIN fresh' = Supervisor /\ fresh'[s] = {}
      /\ \A t \in Supervisor : t # s => mem'[t] = mem[t] /\ fresh'[t] = fresh[t]
  BY DEF Forgets, Informed, Tables
<1>2. /\ sup' \in [Supervisor -> Stage] /\ sup'[s] = "off"
      /\ \A t \in Supervisor : t # s => sup'[t] = sup[t]
  BY DEF Informed, Tables, Stage
<1>3. \A t \in Supervisor : Supervises(t)' <=> t # s /\ Supervises(t)
  BY <1>2 DEF Supervises
<1>4. \A t \in Supervisor, p \in Project : Supervises(t)' /\ ~blind'[p] => UNCHANGED failures /\ ~blind[p]
  BY <1>3 DEF Informed
<1>5. \A p \in Project : IsRuntime(mem'[s][p]) /\ mem'[s][p].child = Nobody
  BY <1>1, NoFailures DEF pendingRuntime
<1>6. Tables'
  BY <1>1, <1>2, <1>5 DEF Informed, Tables
<1>7. \A t, u \in Supervisor, p \in Project : Supervises(t)' /\ Supervises(u)' /\ ~blind'[p] => t = u
  BY <1>3 DEF Informed
<1>8. \A t \in Supervisor, p \in Project :
          /\ mem'[t][p].child # Nobody => Supervises(t)' /\ mem'[t][p].phase \in {"running", "stopping"}
          /\ p \in fresh'[t] => ~Supervises(t)' /\ mem'[t][p].restarts = <<>>
          /\ Supervises(t)' /\ ~blind'[p] => Agrees(mem'[t][p].restarts, mem'[t][p].phase, failures'[p])
  BY <1>1, <1>3, <1>4, <1>5 DEF Informed
<1>. QED
  BY <1>6, <1>7, <1>8 DEF Informed

\* It is killed, or gives up before it supervises.
LEMMA EndedQuietly ==
    ASSUME Informed, NEW s \in Supervisor, Crash(s) \/ RunFails(s)
    PROVE  Informed'
<1>1. /\ sup' = [sup EXCEPT ![s] = "off"] /\ Forgets(s) /\ UNCHANGED <<disk, failures, blind>>
  BY DEF Crash, RunFails, Dies
<1>2. \A p \in Project : blind[p] => blind'[p]
  BY <1>1
<1>3. /\ DOMAIN disk' = Project /\ blind' \in [Project -> BOOLEAN] /\ DOMAIN failures' = Project
      /\ \A p \in Project :
           /\ IsRuntime(disk'[p]) /\ disk'[p].child = Nobody
           /\ ~blind'[p] => Agrees(disk'[p].restarts, disk'[p].phase, failures'[p])
  BY <1>1 DEF Informed, Tables
<1>. QED
  BY <1>1, <1>2, <1>3, Ended

\* It stops in order.
LEMMA FinishStep ==
    ASSUME Informed, NEW s \in Supervisor, Finish(s)
    PROVE  Informed'
<1>. DEFINE saved(p) == [mem[s][p] EXCEPT !.child = Nobody, !.age = 0,
                            !.phase = IF mem[s][p].child # Nobody THEN "stopped" ELSE @]
<1>1. /\ sup' = [sup EXCEPT ![s] = "off"] /\ Forgets(s) /\ UNCHANGED failures /\ Supervises(s)
      /\ \/ disk' = [p \in Project |-> saved(p)] /\ UNCHANGED blind
         \/ UNCHANGED disk /\ blind' = [p \in Project |-> TRUE]
  BY DEF Finish, Supervises
<1>2. \A p \in Project : /\ IsRuntime(saved(p)) /\ saved(p).child = Nobody
                         /\ saved(p).restarts = mem[s][p].restarts
                         /\ saved(p).phase = IF mem[s][p].child # Nobody THEN "stopped" ELSE mem[s][p].phase
  <2>. SUFFICES ASSUME NEW p \in Project
                PROVE  /\ IsRuntime(saved(p)) /\ saved(p).child = Nobody
                       /\ saved(p).restarts = mem[s][p].restarts
                       /\ saved(p).phase = IF mem[s][p].child # Nobody THEN "stopped" ELSE mem[s][p].phase
    OBVIOUS
  <2>. DEFINE r == mem[s][p]
  <2>1. IsRuntime(r)
    BY DEF Informed, Tables
  <2>2. saved(p) = [r EXCEPT !.child = Nobody, !.age = 0, !.phase = IF r.child # Nobody THEN "stopped" ELSE @]
    OBVIOUS
  <2>. HIDE DEF r, saved
  <2>3. /\ IsRuntime(saved(p)) /\ saved(p).child = Nobody /\ saved(p).restarts = r.restarts
        /\ saved(p).phase = IF r.child # Nobody THEN "stopped" ELSE r.phase
    BY <2>1, <2>2 DEF IsRuntime
  <2>. QED
    BY <2>3 DEF r
<1>. HIDE DEF saved
<1>3. \A p \in Project : ~blind[p] => Agrees(saved(p).restarts, saved(p).phase, failures[p])
  <2>. SUFFICES ASSUME NEW p \in Project, ~blind[p]
                PROVE  Agrees(saved(p).restarts, saved(p).phase, failures[p])
    OBVIOUS
  <2>1. /\ Agrees(mem[s][p].restarts, mem[s][p].phase, failures[p])
        /\ mem[s][p].child # Nobody => mem[s][p].phase # "tripped"
    BY <1>1 DEF Informed
  <2>. QED
    BY <1>2, <2>1, PhaseChanges
<1>4. /\ DOMAIN disk' = Project /\ blind' \in [Project -> BOOLEAN] /\ DOMAIN failures' = Project
      /\ \A p \in Project :
           /\ IsRuntime(disk'[p]) /\ disk'[p].child = Nobody
           /\ ~blind'[p] => Agrees(disk'[p].restarts, disk'[p].phase, failures'[p])
  <2>1. failures' = failures /\ blind \in [Project -> BOOLEAN] /\ DOMAIN failures = Project
    BY <1>1 DEF Informed, Tables
  <2>2. CASE disk' = [p \in Project |-> saved(p)] /\ UNCHANGED blind
    BY <1>2, <1>3, <2>1, <2>2
  <2>3. CASE UNCHANGED disk /\ blind' = [p \in Project |-> TRUE]
    BY <2>1, <2>3 DEF Informed, Tables
  <2>. QED
    BY <1>1, <2>2, <2>3
<1>5. \A p \in Project : blind[p] => blind'[p]
  BY <1>1
<1>. QED
  BY <1>1, <1>4, <1>5, Ended

\* A spawn that made no process ends the Supervisor.
LEMMA SpawnFailsStep ==
    ASSUME Informed, NEW s \in Supervisor, NEW p \in Project, SpawnFails(s, p)
    PROVE  Informed'
<1>1. CASE Spawns(s, p) /\ Exited(s, p, [mem[s][p] EXCEPT !.age = 0]) /\ UNCHANGED sup
  BY <1>1, ProjectStep
<1>2. CASE /\ failures' = [failures EXCEPT ![p] = Kept(Append(@, 0))]
           /\ Forgets(s) /\ Dies(s, ctl) /\ Spawns(s, p)
           /\ \/ /\ disk' = [q \in Project |-> IF q = p THEN decideRestart([mem[s][p] EXCEPT !.age = 0])
                                               ELSE [mem[s][q] EXCEPT !.child = Nobody, !.age = 0]]
                 /\ UNCHANGED blind
              \/ UNCHANGED disk /\ blind' = [q \in Project |-> TRUE]
  <2>. DEFINE x == [mem[s][p] EXCEPT !.age = 0]
              d == decideRestart(x)
              m(q) == [mem[s][q] EXCEPT !.child = Nobody, !.age = 0]
  <2>1. Supervises(s) /\ mem[s][p].phase \in {"pending", "backoff"} /\ sup' = [sup EXCEPT ![s] = "off"]
    BY <1>2 DEF Spawns, MayStart, Supervises, Dies
  <2>2. \A q \in Project : ~blind[q] => Agrees(mem[s][q].restarts, mem[s][q].phase, failures[q])
    BY <2>1 DEF Informed
  <2>3. /\ IsRuntime(x) /\ x.restarts = mem[s][p].restarts /\ x.phase = mem[s][p].phase
        /\ x.child = Nobody /\ x.age = 0
    <3>1. IsRuntime(mem[s][p]) /\ mem[s][p].child = Nobody
      BY <2>1 DEF Informed, Tables
    <3>. QED
      BY <3>1, RecordEdits
  <2>4. \A q \in Project : /\ IsRuntime(m(q)) /\ m(q).child = Nobody
                           /\ m(q).restarts = mem[s][q].restarts /\ m(q).phase = mem[s][q].phase
    BY Childless DEF Informed, Tables
  <2>5. \/ /\ disk' = [q \in Project |-> IF q = p THEN d ELSE m(q)]
           /\ UNCHANGED blind
        \/ UNCHANGED disk /\ blind' = [q \in Project |-> TRUE]
    BY <1>2
  <2>. HIDE DEF x, m
  <2>6. /\ IsRuntime(d) /\ d.child = Nobody
        /\ ~blind[p] => Agrees(d.restarts, d.phase, Kept(Append(failures[p], 0)))
    <3>1. ~(x.age >= StableAfter)
      BY <2>3, Bounds
    <3>2. ~blind[p] => Agrees(x.restarts, x.phase, failures[p])
      BY <2>2, <2>3
    <3>. HIDE DEF d
    <3>3. /\ IsRuntime(d) /\ d.child = x.child
          /\ Agrees(x.restarts, x.phase, failures[p]) =>
                 Agrees(d.restarts, d.phase,
                        IF x.age >= StableAfter THEN <<0>> ELSE Kept(Append(failures[p], 0)))
      BY <2>3, Restarts DEF d
    <3>. QED
      BY <2>3, <3>1, <3>2, <3>3
  <2>. HIDE DEF d
  <2>7. /\ DOMAIN failures' = Project /\ failures'[p] = Kept(Append(failures[p], 0))
        /\ \A q \in Project : q # p => failures'[q] = failures[q]
    BY <1>2 DEF Informed, Tables
  <2>8. /\ DOMAIN disk' = Project /\ blind' \in [Project -> BOOLEAN]
        /\ \A q \in Project :
             /\ IsRuntime(disk'[q]) /\ disk'[q].child = Nobody
             /\ ~blind'[q] => Agrees(disk'[q].restarts, disk'[q].phase, failures'[q])
    <3>1. CASE disk' = [q \in Project |-> IF q = p THEN d ELSE m(q)] /\ UNCHANGED blind
      <4>1. \A q \in Project : disk'[q] = IF q = p THEN d ELSE m(q)
        BY <3>1
      <4>2. \A q \in Project : q # p /\ ~blind[q] => Agrees(m(q).restarts, m(q).phase, failures[q])
        BY <2>2, <2>4
      <4>. QED
        BY <2>4, <2>6, <2>7, <3>1, <4>1, <4>2 DEF Informed, Tables
    <3>2. CASE UNCHANGED disk /\ blind' = [q \in Project |-> TRUE]
      BY <3>2 DEF Informed, Tables
    <3>. QED
      BY <2>5, <3>1, <3>2
  <2>9. \A q \in Project : blind[q] => blind'[q]
    BY <1>2
  <2>. QED
    BY <1>2, <2>1, <2>7, <2>8, <2>9, Ended
<1>. QED
  BY <1>1, <1>2 DEF SpawnFails

\* A Supervisor reads the file, and becomes the one that supervises.
LEMMA LaunchStep ==
    ASSUME Informed, NEW s \in Supervisor, NEW selected, NEW changed, Launch(s, selected, changed)
    PROVE  Informed'
<1>. DEFINE old(p) == IF p \in changed THEN pendingRuntime ELSE disk[p]
<1>1. /\ sup[s] = "off" /\ sup' = [sup EXCEPT ![s] = "loaded"]
      /\ UNCHANGED <<disk, failures, blind>> /\ fresh' = [fresh EXCEPT ![s] = changed]
      /\ mem' = [mem EXCEPT ![s] = [p \in Project |->
           IF p \in selected THEN restoredRuntime(old(p)) ELSE unselectedRuntime(old(p))]]
  BY DEF Launch
<1>2. \A p \in Project : /\ IsRuntime(old(p)) /\ old(p).child = Nobody
                         /\ p \in changed => old(p).restarts = <<>>
  BY NoFailures DEF Informed, Tables, pendingRuntime
<1>. HIDE DEF old
<1>3. /\ DOMAIN mem' = Supervisor /\ DOMAIN mem'[s] = Project /\ DOMAIN fresh' = Supervisor
      /\ fresh'[s] = changed /\ \A t \in Supervisor : t # s => mem'[t] = mem[t] /\ fresh'[t] = fresh[t]
      /\ \A p \in Project : \/ mem'[s][p] = restoredRuntime(old(p))
                            \/ mem'[s][p] = unselectedRuntime(old(p))
  BY <1>1 DEF Informed, Tables
<1>4. \A p \in Project : /\ IsRuntime(mem'[s][p]) /\ mem'[s][p].child = Nobody
                         /\ p \in changed => mem'[s][p].restarts = <<>>
  <2>1. ASSUME NEW p \in Project
        PROVE  /\ IsRuntime(mem'[s][p]) /\ mem'[s][p].child = Nobody
               /\ p \in changed => mem'[s][p].restarts = <<>>
    <3>1. /\ IsRuntime(old(p)) /\ old(p).child = Nobody /\ (p \in changed => old(p).restarts = <<>>)
          /\ mem'[s][p] = restoredRuntime(old(p)) \/ mem'[s][p] = unselectedRuntime(old(p))
      BY <1>2, <1>3
    <3>2. \A r : IsRuntime(r) => LET d == restoredRuntime(r)
                                     e == unselectedRuntime(r)
                                 IN  /\ IsRuntime(d) /\ d.child = r.child /\ d.restarts = r.restarts
                                     /\ IsRuntime(e) /\ e.child = r.child /\ e.restarts = r.restarts
      BY RecordEdits
    <3>. QED
      BY <3>1, <3>2
  <2>. QED
    BY <2>1
<1>5. /\ sup' \in [Supervisor -> Stage] /\ ~Supervises(s)'
      /\ \A t \in Supervisor : t # s => (Supervises(t)' <=> Supervises(t))
  BY <1>1 DEF Informed, Tables, Stage, Supervises
<1>6. Tables'
  BY <1>1, <1>3, <1>4, <1>5 DEF Informed, Tables
<1>7. \A t, u \in Supervisor, p \in Project : Supervises(t)' /\ Supervises(u)' /\ ~blind'[p] => t = u
  BY <1>1, <1>5 DEF Informed
<1>8. \A t \in Supervisor, p \in Project :
          /\ mem'[t][p].child # Nobody => Supervises(t)' /\ mem'[t][p].phase \in {"running", "stopping"}
          /\ p \in fresh'[t] => ~Supervises(t)' /\ mem'[t][p].restarts = <<>>
          /\ Supervises(t)' /\ ~blind'[p] => Agrees(mem'[t][p].restarts, mem'[t][p].phase, failures'[p])
  BY <1>1, <1>3, <1>4, <1>5 DEF Informed
<1>. QED
  BY <1>1, <1>6, <1>7, <1>8 DEF Informed

\* The lease of a dead one is examined and removed.
LEMMA StaleLeaseStep ==
    ASSUME Informed, NEW s \in Supervisor, ConfirmStale(s) \/ UnlinkStale(s)
    PROVE  Informed'
<1>1. /\ ~Supervises(s) /\ (sup' = [sup EXCEPT ![s] = "confirmed"] \/ sup' = [sup EXCEPT ![s] = "loaded"])
      /\ UNCHANGED <<mem, fresh, disk, failures, blind>>
  BY DEF ConfirmStale, UnlinkStale, Supervises
<1>2. sup' \in [Supervisor -> Stage] /\ \A t \in Supervisor : Supervises(t)' <=> Supervises(t)
  BY <1>1 DEF Informed, Tables, Stage, Supervises
<1>. QED
  BY <1>1, <1>2 DEF Informed, Tables

LEMMA RunStep ==
    ASSUME Informed, NEW s \in Supervisor, run(s)
    PROVE  Informed'
<1>1. /\ sup[s] = "loaded" /\ sup' = [sup EXCEPT ![s] = "running"]
      /\ disk' = [p \in Project |-> mem[s][p]]
      /\ failures' = [p \in Project |-> IF p \in fresh[s] THEN <<>> ELSE failures[p]]
      /\ blind' = [p \in Project |-> (blind[p] /\ p \notin fresh[s]) \/ Forgotten(s, p)]
      /\ fresh' = [fresh EXCEPT ![s] = {}] /\ UNCHANGED mem
  BY DEF run
<1>2. /\ sup' \in [Supervisor -> Stage] /\ Supervises(s)' /\ ~Supervises(s)
      /\ \A t \in Supervisor : t # s => (Supervises(t)' <=> Supervises(t))
  BY <1>1 DEF Informed, Tables, Stage, Supervises
<1>3. /\ DOMAIN fresh' = Supervisor /\ fresh'[s] = {}
      /\ \A t \in Supervisor : t # s => fresh'[t] = fresh[t]
  BY <1>1 DEF Informed, Tables
<1>4. /\ blind' \in [Project -> BOOLEAN] /\ DOMAIN disk' = Project /\ DOMAIN failures' = Project
      /\ \A p \in Project : /\ disk'[p] = mem[s][p] /\ mem[s][p].child = Nobody
                            /\ failures'[p] = IF p \in fresh[s] THEN <<>> ELSE failures[p]
                            /\ ~blind'[p] => (p \in fresh[s] \/ ~blind[p]) /\ ~Forgotten(s, p)
  <2>1. \A p \in Project : ((blind[p] /\ p \notin fresh[s]) \/ Forgotten(s, p)) \in BOOLEAN
    BY DEF Informed, Tables
  <2>. QED
    BY <1>1, <1>2, <2>1 DEF Informed
<1>5. \A p \in Project : ~blind'[p] => /\ Agrees(mem[s][p].restarts, mem[s][p].phase, failures'[p])
                                      /\ \A t \in Supervisor : ~Supervises(t)
  <2>. SUFFICES ASSUME NEW p \in Project, ~blind'[p]
                PROVE  /\ Agrees(mem[s][p].restarts, mem[s][p].phase, failures'[p])
                       /\ \A t \in Supervisor : ~Supervises(t)
    OBVIOUS
  <2>1. /\ \A t \in Supervisor : ~Supervises(t)
        /\ p \notin fresh[s] => /\ mem[s][p].restarts = disk[p].restarts
                               /\ (disk[p].phase # "tripped" \/ mem[s][p].phase = "tripped")
    BY <1>4 DEF Forgotten
  <2>2. CASE p \in fresh[s]
    BY <1>4, <2>1, <2>2, NoFailures DEF Informed
  <2>3. CASE p \notin fresh[s]
    <3>1. Agrees(disk[p].restarts, disk[p].phase, failures'[p])
      BY <1>4, <2>3 DEF Informed
    <3>. QED
      BY <2>1, <2>3, <3>1, PhaseChanges
  <2>. QED
    BY <2>2, <2>3
<1>6. Tables'
  BY <1>1, <1>2, <1>3, <1>4 DEF Informed, Tables
<1>7. \A t, u \in Supervisor, p \in Project : Supervises(t)' /\ Supervises(u)' /\ ~blind'[p] => t = u
  BY <1>2, <1>5
<1>8. \A t \in Supervisor, p \in Project :
          /\ mem'[t][p].child # Nobody => Supervises(t)' /\ mem'[t][p].phase \in {"running", "stopping"}
          /\ p \in fresh'[t] => ~Supervises(t)' /\ mem'[t][p].restarts = <<>>
          /\ Supervises(t)' /\ ~blind'[p] => Agrees(mem'[t][p].restarts, mem'[t][p].phase, failures'[p])
  BY <1>1, <1>2, <1>3, <1>5 DEF Informed
<1>9. \A p \in Project : disk'[p].child = Nobody
          /\ (~blind'[p] => Agrees(disk'[p].restarts, disk'[p].phase, failures'[p]))
  BY <1>4, <1>5
<1>. QED
  BY <1>6, <1>7, <1>8, <1>9 DEF Informed

\* It is told to stop, and kills its children.
LEMMA StopStep ==
    ASSUME Informed, NEW s \in Supervisor, Stop(s)
    PROVE  Informed'
<1>1. /\ Supervises(s) /\ sup' = [sup EXCEPT ![s] = "stopping"] /\ Checkpoint(s)
      /\ UNCHANGED <<fresh, failures>>
      /\ mem' = [mem EXCEPT ![s] = [p \in Project |->
           IF mem[s][p].child # Nobody THEN [mem[s][p] EXCEPT !.phase = "stopping"] ELSE mem[s][p]]]
  BY DEF Stop, Handles, Supervises
<1>2. /\ sup' \in [Supervisor -> Stage] /\ Supervises(s)' /\ DOMAIN failures' = Project
      /\ \A t \in Supervisor : t # s => sup'[t] = sup[t]
  BY <1>1 DEF Informed, Tables, Stage, Supervises
<1>3. /\ DOMAIN mem' = Supervisor /\ DOMAIN mem'[s] = Project
      /\ \A t \in Supervisor : t # s => mem'[t] = mem[t]
      /\ \A p \in Project : mem'[s][p] = IF mem[s][p].child # Nobody
                                           THEN [mem[s][p] EXCEPT !.phase = "stopping"] ELSE mem[s][p]
  BY <1>1 DEF Informed, Tables
<1>4. ASSUME NEW p \in Project
      PROVE  /\ IsRuntime(mem'[s][p])
             /\ mem'[s][p].child # Nobody => mem'[s][p].phase \in {"running", "stopping"}
             /\ ~blind[p] => Agrees(mem'[s][p].restarts, mem'[s][p].phase, failures'[p])
  <2>1. /\ IsRuntime(mem[s][p])
        /\ mem[s][p].child # Nobody => mem[s][p].phase \in {"running", "stopping"}
        /\ ~blind[p] => Agrees(mem[s][p].restarts, mem[s][p].phase, failures[p])
    BY <1>1 DEF Informed, Tables
  <2>2. CASE mem[s][p].child # Nobody
    <3>1. /\ IsRuntime(mem'[s][p]) /\ mem'[s][p].restarts = mem[s][p].restarts
          /\ mem'[s][p].phase = "stopping"
      <4>. DEFINE r == mem[s][p]
      <4>1. IsRuntime(r) /\ mem'[s][p] = [r EXCEPT !.phase = "stopping"]
        BY <1>3, <2>1, <2>2
      <4>. HIDE DEF r
      <4>2. /\ IsRuntime(mem'[s][p]) /\ mem'[s][p].restarts = r.restarts
            /\ mem'[s][p].phase = "stopping"
        BY <4>1 DEF IsRuntime
      <4>. QED
        BY <4>2 DEF r
    <3>. QED
      BY <1>1, <2>1, <2>2, <3>1, PhaseChanges
  <2>3. CASE mem[s][p].child = Nobody
    BY <1>1, <1>3, <2>1, <2>3
  <2>. QED
    BY <2>2, <2>3
<1>. QED
  BY <1>1, <1>2, <1>3, <1>4, Writes

LEMMA KillStep ==
    ASSUME Informed, NEW s \in Supervisor, Kill(s)
    PROVE  Informed'
<1>1. /\ Supervises(s) /\ sup' = [sup EXCEPT ![s] = "killing"]
      /\ UNCHANGED <<mem, fresh, disk, failures, blind>>
  BY DEF Kill, Supervises
<1>2. /\ sup' \in [Supervisor -> Stage] /\ \A t \in Supervisor : Supervises(t)' <=> Supervises(t)
  BY <1>1 DEF Informed, Tables, Stage, Supervises
<1>. QED
  BY <1>1, <1>2 DEF Informed, Tables

\* A person resets a circuit.
LEMMA ResetStep ==
    ASSUME Informed, NEW p \in Project, resetFleetProject(p)
    PROVE  Informed'
<1>. DEFINE d == [pendingRuntime EXCEPT !.phase = "stopped"]
<1>1. /\ UNCHANGED <<sup, mem, fresh>> /\ disk' = [disk EXCEPT ![p] = d]
      /\ failures' = [failures EXCEPT ![p] = <<>>]
      /\ blind' = [blind EXCEPT ![p] = \E s \in Supervisor : Supervises(s)]
  BY DEF resetFleetProject
<1>2. IsRuntime(d) /\ d.child = Nobody /\ d.restarts = <<>> /\ d.phase = "stopped"
  BY NoFailures DEF pendingRuntime, IsRuntime
<1>. HIDE DEF d
<1>3. Agrees(d.restarts, d.phase, <<>>)
  BY <1>2, NoFailures
<1>4. /\ DOMAIN disk' = Project /\ DOMAIN failures' = Project /\ blind' \in [Project -> BOOLEAN]
      /\ disk'[p] = d /\ failures'[p] = <<>> /\ (~blind'[p] => \A s \in Supervisor : ~Supervises(s))
      /\ \A q \in Project : q # p => disk'[q] = disk[q] /\ failures'[q] = failures[q] /\ blind'[q] = blind[q]
  BY <1>1 DEF Informed, Tables
<1>5. \A q \in Project :
        /\ IsRuntime(disk'[q]) /\ disk'[q].child = Nobody
        /\ ~blind'[q] => Agrees(disk'[q].restarts, disk'[q].phase, failures'[q])
  BY <1>2, <1>3, <1>4 DEF Informed, Tables
<1>6. \A s \in Supervisor : Supervises(s)' <=> Supervises(s)
  BY <1>1 DEF Supervises
<1>7. \A s, t \in Supervisor, q \in Project : Supervises(s)' /\ Supervises(t)' /\ ~blind'[q] => s = t
  BY <1>4, <1>6 DEF Informed
<1>8. \A s \in Supervisor, q \in Project :
          Supervises(s)' /\ ~blind'[q] => Agrees(mem'[s][q].restarts, mem'[s][q].phase, failures'[q])
  BY <1>1, <1>4, <1>6 DEF Informed
<1>. QED
  BY <1>1, <1>4, <1>5, <1>6, <1>7, <1>8 DEF Informed, Tables

\* Time passes.
LEMMA TimeStep ==
    ASSUME Informed, Time
    PROVE  Informed'
<1>1. /\ mem' = [s \in Supervisor |-> [p \in Project |-> Later(mem[s][p])]]
      /\ disk' = [p \in Project |-> [disk[p] EXCEPT !.restarts = Older(@), !.due = IF @ > 0 THEN @ - 1 ELSE 0]]
      /\ failures' = [p \in Project |-> Recent(Older(failures[p]))]
      /\ UNCHANGED <<sup, fresh, blind>>
  BY DEF Time
<1>2. \A p \in Project : /\ IsRuntime(disk'[p]) /\ disk'[p].child = Nobody
                         /\ disk'[p].restarts = Older(disk[p].restarts) /\ disk'[p].phase = disk[p].phase
  <2>. SUFFICES ASSUME NEW p \in Project
                PROVE  /\ IsRuntime(disk'[p]) /\ disk'[p].child = Nobody
                       /\ disk'[p].restarts = Older(disk[p].restarts) /\ disk'[p].phase = disk[p].phase
    OBVIOUS
  <2>. DEFINE r == disk[p]
              d == [r EXCEPT !.restarts = Older(@), !.due = IF @ > 0 THEN @ - 1 ELSE 0]
  <2>1. IsRuntime(r) /\ r.child = Nobody /\ disk'[p] = d
    BY <1>1 DEF Informed, Tables
  <2>. HIDE DEF r
  <2>2. IsRuntime(d) /\ d.child = r.child /\ d.restarts = Older(r.restarts) /\ d.phase = r.phase
    BY <2>1 DEF IsRuntime
  <2>. QED
    BY <2>1, <2>2 DEF r
<1>3. \A s \in Supervisor, p \in Project :
          /\ IsRuntime(mem'[s][p]) /\ mem'[s][p].child = mem[s][p].child
          /\ mem'[s][p].restarts = Older(mem[s][p].restarts) /\ mem'[s][p].phase = mem[s][p].phase
  BY <1>1, RecordEdits DEF Informed, Tables
<1>4. \A p \in Project : failures'[p] = Recent(Older(failures[p]))
  BY <1>1
<1>5. Tables'
  BY <1>1, <1>2, <1>3 DEF Informed, Tables
<1>6. \A s \in Supervisor : Supervises(s)' <=> Supervises(s)
  BY <1>1 DEF Supervises
<1>9. \A s, t \in Supervisor, p \in Project : Supervises(s)' /\ Supervises(t)' /\ ~blind'[p] => s = t
  BY <1>1, <1>6 DEF Informed
<1>10. \A s \in Supervisor, p \in Project :
          /\ mem'[s][p].child # Nobody => Supervises(s)' /\ mem'[s][p].phase \in {"running", "stopping"}
          /\ p \in fresh'[s] => ~Supervises(s)' /\ mem'[s][p].restarts = <<>>
  <2>. SUFFICES ASSUME NEW s \in Supervisor, NEW p \in Project
                PROVE  /\ mem'[s][p].child # Nobody =>
                              Supervises(s)' /\ mem'[s][p].phase \in {"running", "stopping"}
                       /\ p \in fresh'[s] => ~Supervises(s)' /\ mem'[s][p].restarts = <<>>
    OBVIOUS
  <2>1. Older(<<>>) = <<>>
    BY DEF Older
  <2>2. p \in fresh[s] => ~Supervises(s) /\ mem[s][p].restarts = <<>>
    BY DEF Informed
  <2>3. mem[s][p].child # Nobody => Supervises(s) /\ mem[s][p].phase \in {"running", "stopping"}
    BY DEF Informed
  <2>. QED
    BY <1>1, <1>3, <1>6, <2>1, <2>2, <2>3
<1>7. \A s \in Supervisor, p \in Project :
          Supervises(s)' /\ ~blind'[p] => Agrees(mem'[s][p].restarts, mem'[s][p].phase, failures'[p])
  <2>1. ASSUME NEW s \in Supervisor, NEW p \in Project, Supervises(s)', ~blind'[p]
        PROVE  Agrees(mem'[s][p].restarts, mem'[s][p].phase, failures'[p])
    <3>1. Agrees(mem[s][p].restarts, mem[s][p].phase, failures[p])
      BY <1>1, <1>6, <2>1 DEF Informed
    <3>. QED
      BY <1>3, <1>4, <3>1, KnowledgeAges
  <2>. QED
    BY <2>1
<1>8. \A p \in Project : ~blind'[p] => Agrees(disk'[p].restarts, disk'[p].phase, failures'[p])
  <2>1. ASSUME NEW p \in Project, ~blind'[p]
        PROVE  Agrees(disk'[p].restarts, disk'[p].phase, failures'[p])
    <3>1. Agrees(disk[p].restarts, disk[p].phase, failures[p])
      BY <1>1, <2>1 DEF Informed
    <3>. QED
      BY <1>2, <1>4, <3>1, KnowledgeAges
  <2>. QED
    BY <2>1
<1>. QED
  BY <1>2, <1>5, <1>7, <1>8, <1>9, <1>10 DEF Informed

\* Informed is inductive.
LEMMA InformedStep == Informed /\ [Next]_vars => Informed'
<1>. SUFFICES ASSUME Informed, [Next]_vars PROVE Informed'
  OBVIOUS
<1>1. ASSUME UNCHANGED <<sup, mem, fresh, disk, failures, blind>> PROVE Informed'
  BY <1>1 DEF Informed, Tables, Supervises
<1>2. ASSUME NEW s \in Supervisor,
             \/ \E selected, changed \in SUBSET Project : Launch(s, selected, changed)
             \/ ConfirmStale(s) \/ UnlinkStale(s) \/ run(s) \/ RunFails(s) \/ Stop(s) \/ Kill(s) \/ Finish(s) \/ Crash(s)
      PROVE  Informed'
  BY <1>2, LaunchStep, StaleLeaseStep, RunStep, StopStep, KillStep, FinishStep, EndedQuietly
<1>3. ASSUME NEW s \in Supervisor, NEW p \in Project, Starts(s, p) \/ handleOwnedExit(s, p) \/ AdoptedEnds(s, p)
      PROVE  Informed'
  BY <1>3, ProjectStep, SpawnFailsStep DEF Starts
<1>4. ASSUME NEW p \in Project, RemoveLease(p) \/ \E c \in Controller : runProjectTick(p, c) PROVE Informed'
  BY <1>1, <1>4 DEF RemoveLease, runProjectTick
<1>5. ASSUME NEW c \in Controller, acquireControllerLease(c) \/ WriteLease(c) \/ Ends(c) PROVE Informed'
  <2>1. UNCHANGED <<sup, mem, fresh, disk, failures, blind>>
    BY <1>5 DEF acquireControllerLease, WriteLease, Ends
  <2>. QED
    BY <1>1, <2>1
<1>6. CASE UNCHANGED vars
  BY <1>1, <1>6 DEF vars
<1>. QED
  BY <1>2, <1>3, <1>4, <1>5, <1>6, ResetStep, TimeStep DEF Next

-----------------------------------------------------------------------------
(* The budget.                                                               *)

\* Only spawnProject makes a process that a Supervisor owns.
LEMMA OnlySpawns ==
    ASSUME OwnersRun, Next, NEW c \in Controller, ctl[c] = NoController, ctl'[c].owner # Nobody
    PROVE  \E s \in Supervisor, p \in Project : spawnProject(s, p, c)
<1>1. /\ ctl \in [Controller -> Process] /\ ctl[c].at = "none" /\ ctl[c].owner = Nobody
      /\ ctl'[c] # ctl[c] /\ ctl'[c] # NoController
  BY DEF OwnersRun, NoController
<1>2. ASSUME NEW s \in Supervisor, Dies(s, ctl) PROVE FALSE
  <2>1. ctl[c].owner # s
    BY <1>1, FleetAssumption
  <2>. QED
    BY <1>1, <1>2, <2>1 DEF Dies
<1>3. ASSUME NEW s \in Supervisor,
             \/ \E selected, changed \in SUBSET Project : Launch(s, selected, changed)
             \/ ConfirmStale(s) \/ UnlinkStale(s) \/ run(s) \/ RunFails(s) \/ Stop(s) \/ Kill(s) \/ Finish(s) \/ Crash(s)
      PROVE  FALSE
  <2>1. ctl[c].owner # s
    BY <1>1, FleetAssumption
  <2>2. ASSUME UNCHANGED ctl PROVE FALSE
    BY <1>1, <2>2
  <2>3. CASE Kill(s) \/ Finish(s)
    BY <1>1, <2>1, <2>3 DEF Kill, Finish
  <2>. QED
    BY <1>2, <1>3, <2>2, <2>3 DEF Launch, ConfirmStale, UnlinkStale, run, RunFails, Stop, Crash
<1>4. ASSUME NEW s \in Supervisor, NEW p \in Project, handleOwnedExit(s, p) \/ AdoptedEnds(s, p)
      PROVE  FALSE
  BY <1>1, <1>4 DEF handleOwnedExit, AdoptedEnds
<1>5. ASSUME NEW s \in Supervisor, NEW p \in Project, Starts(s, p)
      PROVE  spawnProject(s, p, c)
  <2>1. CASE Adopt(s, p) \/ MalformedLease(s, p)
    BY <1>1, <2>1 DEF Adopt, MalformedLease
  <2>2. CASE SpawnFails(s, p)
    BY <1>1, <1>2, <2>2 DEF SpawnFails
  <2>3. ASSUME NEW d \in Controller, spawnProject(s, p, d) PROVE spawnProject(s, p, c)
    <3>1. ctl' = [ctl EXCEPT ![d] = [at |-> "booting", of |-> p, owner |-> s]]
      BY <2>3 DEF spawnProject
    <3>2. d = c
      BY <1>1, <3>1
    <3>. QED
      BY <2>3, <3>2
  <2>. QED
    BY <1>5, <2>1, <2>2, <2>3 DEF Starts
<1>6. ASSUME NEW p \in Project, NEW d \in Controller, runProjectTick(p, d) PROVE FALSE
  BY <1>1, <1>6 DEF runProjectTick
<1>7. ASSUME NEW d \in Controller, acquireControllerLease(d) \/ WriteLease(d) \/ Ends(d) PROVE FALSE
  <2>1. ctl[d].at # "none"
    BY <1>7 DEF acquireControllerLease, WriteLease, Ends, Living
  <2>2. ctl'[c] = ctl[c]
    BY <1>1, <1>7, <2>1 DEF acquireControllerLease, WriteLease, Ends
  <2>. QED
    BY <1>1, <2>2
<1>8. ASSUME NEW p \in Project, resetFleetProject(p) \/ RemoveLease(p) PROVE FALSE
  BY <1>1, <1>8 DEF resetFleetProject, RemoveLease
<1>9. CASE Time
  BY <1>1, <1>9 DEF Time
<1>. QED
  BY <1>3, <1>4, <1>5, <1>6, <1>7, <1>8, <1>9 DEF Next

\* Without its circuit open a project has failed MaxRestarts times at most.
LEMMA FewFailures ==
    ASSUME NEW restarts, NEW phase, NEW known, Agrees(restarts, phase, known), phase # "tripped"
    PROVE  Cardinality({i \in DOMAIN known : known[i] =< Window}) =< MaxRestarts
<1>. DEFINE T == {i \in DOMAIN known : known[i] =< Window}
<1>1. History(restarts) /\ known = Recent(restarts) /\ Len(restarts) =< MaxRestarts /\ Len(restarts) \in Nat
  BY HistoryFacts DEF Agrees
<1>2. History(known) /\ \E k \in 0..Len(restarts) : Len(known) = Len(restarts) - k
  BY <1>1, RecentEnd
<1>3. /\ DOMAIN known = 1..Len(known) /\ Len(known) \in Nat /\ Len(known) =< MaxRestarts
      /\ MaxRestarts \in Nat
  <2>1. DOMAIN known = 1..Len(known) /\ Len(known) \in Nat
    BY <1>2, HistoryFacts
  <2>2. MaxRestarts \in Nat
    BY Bounds
  <2>. QED
    BY <1>1, <1>2, <2>1, <2>2
<1>4. IsFiniteSet(1..Len(known)) /\ Cardinality(1..Len(known)) = Len(known)
  <2>. DEFINE n == Len(known)
  <2>1. n \in Nat
    BY <1>3
  <2>. HIDE DEF n
  <2>2. IsFiniteSet(1..n) /\ Cardinality(1..n) = IF 1 > n THEN 0 ELSE n - 1 + 1
    BY <2>1, FS_Interval
  <2>3. IsFiniteSet(1..n) /\ Cardinality(1..n) = n
    BY <2>1, <2>2
  <2>. QED
    BY <2>3 DEF n
<1>5. T \in SUBSET (1..Len(known))
  BY <1>3
<1>. HIDE DEF T
<1>6. IsFiniteSet(T) /\ Cardinality(T) =< Len(known)
  BY <1>4, <1>5, FS_Subset
<1>7. Cardinality(T) \in Nat
  BY <1>6, FS_CardinalityType
<1>8. Cardinality(T) =< MaxRestarts
  BY <1>3, <1>6, <1>7
<1>. QED
  BY <1>8 DEF T

\* Whatever Supervisors stop, die and follow one another, none starts a Controller of a
\* project that has used up its restarts, also where none is allowed, as long as no write
\* and no read of the record was lost and no two of them supervised at once.
THEOREM BudgetIsKept == Spec => RestartBudget
<1>. DEFINE Funded == \A p \in Project : Spawned(p) /\ ~blind[p] =>
                       Cardinality({i \in DOMAIN failures[p] : failures[p][i] =< Window}) =< MaxRestarts
<1>1. Init => OwnersRun /\ Informed
  <2>. SUFFICES ASSUME Init PROVE OwnersRun /\ Informed
    OBVIOUS
  <2>1. OwnersRun
    BY ProcessTypes DEF Init, OwnersRun, StopIsClean, Stage, Supervises
  <2>2. /\ sup \in [Supervisor -> Stage] /\ blind \in [Project -> BOOLEAN]
        /\ \A s \in Supervisor : ~Supervises(s)
        /\ DOMAIN mem = Supervisor /\ DOMAIN disk = Project /\ DOMAIN failures = Project /\ DOMAIN fresh = Supervisor
        /\ \A s \in Supervisor : fresh[s] = {} /\ DOMAIN mem[s] = Project /\ \A p \in Project : mem[s][p] = pendingRuntime
        /\ \A p \in Project : disk[p] = pendingRuntime /\ failures[p] = <<>>
    BY DEF Init, Supervises, Stage
  <2>3. /\ IsRuntime(pendingRuntime) /\ pendingRuntime.child = Nobody
        /\ Agrees(pendingRuntime.restarts, pendingRuntime.phase, <<>>)
    BY NoFailures DEF pendingRuntime
  <2>. QED
    BY <2>1, <2>2, <2>3 DEF Informed, Tables
<1>2. OwnersRun /\ Informed /\ [Next]_vars => [Funded]_vars
  <2>. SUFFICES ASSUME OwnersRun, Informed, Next, NEW p \in Project, Spawned(p), ~blind[p]
                PROVE  Cardinality({i \in DOMAIN failures[p] : failures[p][i] =< Window}) =< MaxRestarts
    OBVIOUS
  <2>1. PICK c \in Controller : ctl[c] = NoController /\ ctl'[c].of = p /\ ctl'[c].owner # Nobody
    BY DEF Spawned
  <2>2. PICK s \in Supervisor, q \in Project : spawnProject(s, q, c)
    BY <2>1, OnlySpawns
  <2>3. q = p
    BY <2>1, <2>2 DEF spawnProject, OwnersRun
  <2>4. Supervises(s) /\ mem[s][p].phase # "tripped"
    BY <2>2, <2>3 DEF spawnProject, Spawns, MayStart, Supervises
  <2>5. Agrees(mem[s][p].restarts, mem[s][p].phase, failures[p])
    BY <2>4 DEF Informed
  <2>. QED
    BY <2>4, <2>5, FewFailures
<1>. QED
  BY <1>1, <1>2, OwnersStep, InformedStep, PTL DEF Spec, RestartBudget

=============================================================================
