----------------------------- MODULE MCTftpBuf ------------------------------
(* An instance of TftpBuf for TLC. *)
EXTENDS TftpBuf

CONSTANTS cr, lf, nul, x
=============================================================================
