---------------------------- MODULE MCPointTxns ----------------------------
(* Small instances of PointTxns: the values of its constants for TLC.      *)
EXTENDS PointTxns, TLC

CONSTANTS r1, r2, r3, r4, walk, m1, m2, opening

FourRequests == {r1, r2, r3, r4}
TwoMissions == {m1, m2}
OneActivity == {walk}

(* The activity may be recorded twice a day.                               *)
TwiceADay == [a \in OneActivity |-> 2]
Points == [a \in OneActivity |-> 3]

(* One record below the count at which the mastery bonus begins (30).      *)
NearBonus == [a \in OneActivity |-> 29]

Symmetry == Permutations(Requests) \cup Permutations(Missions)
=============================================================================
