---------------------------- MODULE MCFileSystem ----------------------------
(***************************************************************************)
(* Small volumes for TLC.                                                  *)
(***************************************************************************)
EXTENDS FileSystem, TLC

MCOffsets == {-3, 3}
Symmetry == Permutations(Tasks) \cup Permutations(Names)

\* Where a failed call has left a volume or a handle that the code cannot use
\* correctly any more, the run goes no further.
NotBroken == ~broken
=============================================================================
