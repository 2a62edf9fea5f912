SPECIFICATION FairSpec
CONSTANTS
  PingId = {p1, p2}
  AppId = {a1}
  MaxMissed = 2
PROPERTY NoisyLinkIsDropped
CHECK_DEADLOCK FALSE
