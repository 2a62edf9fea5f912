SPECIFICATION AggSpec
CONSTANTS
  p1 = p1
  x1 = x1
  NoSlot = NoSlot
  NoPid = NoPid
  NoSid = NoSid
  Anonymous = Anonymous
  Slot = {p1, x1}
  Pid = {p1}
  Sid = {x1}
  MaxTicks = 2
  MaxRestarts = 1
CHECK_DEADLOCK FALSE
INVARIANTS TablesAgree BadgeIsCurrent FrameComes ScreenIsForeground EndedLeavesScreen
PROPERTY FocusIsKept
