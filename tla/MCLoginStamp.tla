---------------------------- MODULE MCLoginStamp ----------------------------
(* One child, two requests at a time, weeks of three days.                 *)
EXTENDS LoginStamp, TLC

MCSymmetry == Permutations(Sessions)
=============================================================================
