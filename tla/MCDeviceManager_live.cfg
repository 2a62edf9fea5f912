SPECIFICATION FairSpec
CONSTANTS
  SerialCand = {usb}
  BleCand = {}
  Link = {l1, l2}
  FlashClient = {f1, f2}
  PairClient = {}
  LastBackoff = 0
  NoLink = NoLink
  NoCand = NoCand
  NoClient = NoClient
PROPERTIES
  AttemptEnds
  FlashAnswered
  HoldNotReleasedByOthers
CHECK_DEADLOCK FALSE
