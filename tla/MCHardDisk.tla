----------------------------- MODULE MCHardDisk -----------------------------
(***************************************************************************)
(* Small disks for TLC.                                                    *)
(***************************************************************************)
EXTENDS HardDisk
=============================================================================
