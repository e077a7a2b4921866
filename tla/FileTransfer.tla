---------------------------- MODULE FileTransfer ----------------------------
(***************************************************************************)
(* What a file transfer promises, whatever the protocol that carries it.   *)
(* A job gives Source[j], a sequence of blocks, to a file block by block;  *)
(* the file takes a block or refuses it.  So copy[j] is at all times made  *)
(* of the given[j] first blocks of the source, in their order, without     *)
(* those in missing[j], and a job is reported "ok" only when the whole of  *)
(* the source has been given.                                              *)
(***************************************************************************)
EXTENDS Naturals, Sequences, SequencesExt

CONSTANTS
    Jobs,       \* the transfers of a session
    Source      \* [Jobs -> sequences of blocks]

VARIABLES
    copy,       \* [Jobs -> blocks the destination file holds]
    given,      \* [Jobs -> how many blocks it has been given]
    missing,    \* [Jobs -> the blocks it has refused]
    status      \* [Jobs -> what the user has been told]

vars == <<copy, given, missing, status>>

Statuses == {"idle", "running", "ok", "failed"}

Init ==
    /\ copy = [j \in Jobs |-> << >>]
    /\ given = [j \in Jobs |-> 0]
    /\ missing = [j \in Jobs |-> {}]
    /\ status = [j \in Jobs |-> "idle"]

Begin(j) ==
    /\ status[j] = "idle"
    /\ status' = [status EXCEPT ![j] = "running"]
    /\ UNCHANGED <<copy, given, missing>>

\* The next block of the source is given to the destination.  It may be the
\* one that lets the job report success in the same step.
Give(j) ==
    /\ status[j] # "idle"
    /\ given[j] < Len(Source[j])
    /\ given' = [given EXCEPT ![j] = @ + 1]
    /\ \/ /\ copy' = [copy EXCEPT ![j] = Append(@, Source[j][given[j] + 1])]
          /\ UNCHANGED missing
       \/ /\ missing' = [missing EXCEPT ![j] = @ \cup {Source[j][given[j] + 1]}]
          /\ UNCHANGED copy
    /\ \/ UNCHANGED status
       \/ /\ status[j] = "running"
          /\ given[j] + 1 = Len(Source[j])
          /\ status' = [status EXCEPT ![j] = "ok"]

Finish(j) ==
    /\ status[j] = "running"
    /\ given[j] = Len(Source[j])
    /\ status' = [status EXCEPT ![j] = "ok"]
    /\ UNCHANGED <<copy, given, missing>>

Fail(j) ==
    /\ status[j] = "running"
    /\ status' = [status EXCEPT ![j] = "failed"]
    /\ UNCHANGED <<copy, given, missing>>

Next == \E j \in Jobs : Begin(j) \/ Give(j) \/ Finish(j) \/ Fail(j)

Spec == Init /\ [][Next]_vars
=============================================================================
