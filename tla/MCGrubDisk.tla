------------------------------ MODULE MCGrubDisk ----------------------------
(* An instance of GrubDisk for TLC. *)
EXTENDS GrubDisk, TLC

CONSTANTS d1, d2, c2

\* Two regions of three and six cells behind their headers, the second handed over at an odd address.
MCCells == 1 .. 16
MCAreas == << [addr |-> 3, size |-> 15], [addr |-> 20, size |-> 9] >>
MCUnder == (d1 :> None) @@ (d2 :> None) @@ (c2 :> d2)
MCSpans == {<<d1, d2>>, <<c2>>}
MCIndexOf == (d1 :> 1) @@ (d2 :> 2) @@ (c2 :> 1)
MCRequests == {[n |-> 3, align |-> 1], [n |-> 2, align |-> 2]}
=============================================================================
