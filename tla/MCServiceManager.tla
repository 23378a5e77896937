-------------------------- MODULE MCServiceManager --------------------------
(* ServiceManager for TLC, with model values for the holders of a lock.    *)
EXTENDS ServiceManager
\* Nothing is promised of a torn lock, nor once the manager is dead.
Followed == ~SomeTorn /\ pc[Main] # "dead"
=============================================================================
