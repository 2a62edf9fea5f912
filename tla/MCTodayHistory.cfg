SPECIFICATION HistorySpec
CONSTANTS
  Slot = {t1, t2}
  NoSlot = NoSlot
  MaxBurn = 1
  MaxSpend = 1
  LastDay = 1
  MaxRestarts = 2
SYMMETRY Symmetry
INVARIANTS CostsAreOfLiveSessions SessionsSurviveRestarts RestoredGoesToOne
