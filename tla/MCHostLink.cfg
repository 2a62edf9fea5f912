SPECIFICATION LinkSpec
CONSTANTS
  SerialCand = {usb}
  BleCand = {ble}
  Link = {l1, l2, l3}
  FlashClient = {}
  PairClient = {p1}
  LastBackoff = 1
  NoLink = NoLink
  NoCand = NoCand
  NoClient = NoClient
CHECK_DEADLOCK FALSE
INVARIANTS
  OneLinkAtATime
PROPERTY
  PauseBlocksBle
