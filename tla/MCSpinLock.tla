---------------------------- MODULE MCSpinLock ----------------------------
(* Model checking of SpinLock: three cores, each nesting the lock twice.   *)
EXTENDS SpinLock
CONSTANTS c0, c1, c2
MCCores == {c0, c1, c2}
=============================================================================
