SPECIFICATION Spec
CONSTANTS
  SerialCand = {usb}
  BleCand = {ble}
  Link = {l1, l2}
  FlashClient = {f1, f2}
  PairClient = {p1}
  LastBackoff = 1
  NoLink = NoLink
  NoCand = NoCand
  NoClient = NoClient
SYMMETRY Symmetry
INVARIANT PortClosedWhileHeld
