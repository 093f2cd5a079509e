------------------------------- MODULE MCCache -------------------------------
(***************************************************************************)
(* Small caches for TLC.                                                   *)
(***************************************************************************)
EXTENDS Cache
=============================================================================
