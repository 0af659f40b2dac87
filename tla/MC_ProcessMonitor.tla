-------------------------- MODULE MC_ProcessMonitor --------------------------
(***************************************************************************)
(* Small instances of ProcessMonitor for TLC.                              *)
(***************************************************************************)
EXTENDS ProcessMonitor, TLC

CONSTANTS p1, p2, t1, t2, t3, id1, id2

\* Processes, threads and ids are interchangeable.
MonitorSymmetry ==
    Permutations(Processes) \cup Permutations(Threads) \cup Permutations(Pids)
=============================================================================
