---------------------------- MODULE MCDeviceList ----------------------------
EXTENDS DeviceList, TLC

\* Commands and devices are told apart by nothing but their state.
Interchangeable == Permutations(Cli) \cup Permutations(Device)
=============================================================================
