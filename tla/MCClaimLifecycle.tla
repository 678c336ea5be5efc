-------------------------- MODULE MCClaimLifecycle --------------------------
(* ClaimLifecycle for TLC: issue 1 is a Map, 4 blocks its first child 2.      *)
EXTENDS ClaimLifecycle

Nest(a, b, c) ==
    [sub |-> <<a, b, c, <<>>>>,
     parent |-> [i \in 1..4 |-> IF i \in ToSet(a) THEN 1 ELSE IF i \in ToSet(b) THEN 2 ELSE NoIssue]]

\* 2 and 3 under the Map; or 3 under 2, which is under the Map and may not.
MCShapes   == {Nest(<<2, 3>>, <<>>, <<>>), Nest(<<2>>, <<3>>, <<>>)}
MCBlockers == [i \in 1..4 |-> IF i = 2 THEN {4} ELSE {}]
=============================================================================
