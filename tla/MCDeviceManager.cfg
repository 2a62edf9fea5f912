SPECIFICATION Spec
CONSTANTS
  SerialCand = {usb}
  BleCand = {ble}
  Link = {l1, l2, l3}
  FlashClient = {f1}
  PairClient = {}
  LastBackoff = 1
  NoLink = NoLink
  NoCand = NoCand
  NoClient = NoClient
SYMMETRY Symmetry
INVARIANTS
  TypeOK
  AlwaysAWayOn
  SessionIsLive
PROPERTY SessionsAsPromised
CHECK_DEADLOCK FALSE
