---------------------------- MODULE MCDeployLock ----------------------------
(* Instances of DeployLock: three processes, so that a reclaimed lock can be *)
(* contended by two waiters.  The cfgs choose which faults may happen.       *)
EXTENDS DeployLock, TLC

Symmetry == Permutations(Procs)
=============================================================================
