---------------------------- MODULE MCDeployLock ----------------------------
(* Small instances of the cross-machine deploy lock: see its .cfg files. *)
EXTENDS DeployLockProofs, TLC

RunSymmetry == Permutations(Procs)
=============================================================================
