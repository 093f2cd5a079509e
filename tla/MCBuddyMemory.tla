---------------------------- MODULE MCBuddyMemory ----------------------------
(* Model checking of BuddyMemory.  Tasks are interchangeable.              *)
EXTENDS BuddyMemory, TLC
CONSTANTS t1, t2
Symmetry == Permutations(Tasks)
=============================================================================
