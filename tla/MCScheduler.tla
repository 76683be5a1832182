---------------------------- MODULE MCScheduler -----------------------------
(* Scheduler on small sets of coroutines and worker threads.               *)
EXTENDS Scheduler
=============================================================================
