--------------------------- MODULE MCRecordBonus ---------------------------
(* Four activities of two categories, two requests at a time.              *)
EXTENDS RecordBonus, TLC

CONSTANTS a1, a2, a3, a4

MCCategory == (a1 :> 1) @@ (a2 :> 1) @@ (a3 :> 2) @@ (a4 :> 2)

MCSymmetry == Permutations(Sessions) \cup Permutations({a1, a2})
=============================================================================
