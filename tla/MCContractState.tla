--------------------------- MODULE MCContractState --------------------------
(* Two checkouts of one family, opened side by side or one after the other.*)
EXTENDS ContractState, TLC

CONSTANTS s1, s2, standard

MCSymmetry == Permutations(Subs)
=============================================================================
