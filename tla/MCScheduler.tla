--------------------------- MODULE MCScheduler ---------------------------
EXTENDS Scheduler
=============================================================================
