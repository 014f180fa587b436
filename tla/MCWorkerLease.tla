---------------------------- MODULE MCWorkerLease -----------------------------
(* Instances of WorkerLease for TLC.                                           *)
EXTENDS WorkerLease, TLC

Interchangeable == Permutations(WorkerIds)

===============================================================================
