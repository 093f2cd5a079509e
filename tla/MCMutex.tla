------------------------------ MODULE MCMutex ------------------------------
(* Model checking of Mutex: three tasks, each nesting the mutex twice.      *)
EXTENDS Mutex
CONSTANTS t0, t1, t2
MCTasks == {t0, t1, t2}
=============================================================================
