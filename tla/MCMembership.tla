--------------------------- MODULE MCMembership ---------------------------
(* Two people, one of whom may be invited by the other.                    *)
EXTENDS Membership, TLC

CONSTANTS A, B, f1, f2, s1, s2

MCPeople == {A, B}

MCSymmetry == Permutations({f1, f2}) \cup Permutations({s1, s2}) \cup Permutations({A, B})
=============================================================================
