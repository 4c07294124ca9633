----------------------------- MODULE MCRecovery -----------------------------
(***************************************************************************)
(* Model-checking support for Recovery.                                    *)
(***************************************************************************)
EXTENDS Recovery, MCDaemon
=============================================================================
