-------------------------- MODULE MCDeviceSession --------------------------
(* Small instances of DeviceSession for TLC. *)
EXTENDS DeviceSession, TLC

Symmetry == Permutations(PingId) \cup Permutations(AppId)
=============================================================================
