SPECIFICATION FairSpec
CONSTANTS
  PingId = {p1, p2}
  AppId = {a1}
  MaxMissed = 2
INVARIANTS
  NoOrphanRequest
PROPERTIES
  GivenUpForSilence
  ImplementsPromise
  SilentLinkIsDropped
  RequestsSettle
CHECK_DEADLOCK FALSE
