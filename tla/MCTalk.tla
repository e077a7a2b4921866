------------------------------- MODULE MCTalk -------------------------------
(* Ann runs talk twice, perhaps at the same time, Bob once; they are on two *)
(* machines.                                                              *)
EXTENDS Talk, TLC

CONSTANTS a1, a2, b1, ann, bob, here, there

MCOwner == a1 :> ann @@ a2 :> ann @@ b1 :> bob

MCHome == ann :> here @@ bob :> there

\* Ann's processes differ in nothing.
MCSymmetry == Permutations({a1, a2})
=============================================================================
