----------------------------- MODULE MCTftpWrite ----------------------------
(* Instances of TftpWrite for TLC. *)
EXTENDS TftpWrite, TLC

CONSTANTS a, b, s1, s2, s3, s4

\* Lengths of the files.
Short == (a :> 2) @@ (b :> 1)
Long == (a :> 3) @@ (b :> 1)

\* What the user types.
OnePut == <<a>>
TwoPuts == <<b, a>>
=============================================================================
