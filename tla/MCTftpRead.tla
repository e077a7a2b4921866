----------------------------- MODULE MCTftpRead -----------------------------
(* Instances of TftpRead for TLC. *)
EXTENDS TftpRead, TLC

CONSTANTS a, b, c, s1, s2, s3, s4

\* Lengths of the files; access to c is refused.
Lengths == (a :> 1) @@ (b :> 3)
Long == (a :> 3) @@ (c :> 0)

\* What the user types.
TwoGets == <<a, b>>
RefusedFirst == <<c, a>>

Interchangeable == Permutations(Servers)
=============================================================================
