---------------------------- MODULE MCDaemonLife ----------------------------
EXTENDS DaemonLife, TLC

\* Processes, shims and clients are told apart by nothing but their state.
Interchangeable == Permutations(Pid) \cup Permutations(Shim)
=============================================================================
