-------------------------- MODULE MCDeviceManager --------------------------
(* Small instances of DeviceManager for TLC. *)
EXTENDS DeviceManager, TLC

Symmetry == Permutations(Link) \cup Permutations(FlashClient)
=============================================================================
