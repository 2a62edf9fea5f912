SPECIFICATION HistorySpec
CONSTANTS
  Slot = {t1, t2}
  NoSlot = NoSlot
  MaxBurn = 1
  MaxSpend = 1
  LastDay = 0
  MaxRestarts = 1
SYMMETRY Symmetry
INVARIANT NeverOverstated
