SPECIFICATION FairLinkSpec
CONSTANTS
  SerialCand = {usb}
  BleCand = {}
  Link = {l1, l2, l3}
  FlashClient = {f1}
  PairClient = {}
  LastBackoff = 0
  NoLink = NoLink
  NoCand = NoCand
  NoClient = NoClient
CHECK_DEADLOCK FALSE
PROPERTY NeverStranded
