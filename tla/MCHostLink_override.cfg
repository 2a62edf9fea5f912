SPECIFICATION FairLinkSpec
CONSTANTS
  SerialCand = {usb}
  BleCand = {ble}
  Link = {l1, l2, l3}
  FlashClient = {}
  PairClient = {}
  LastBackoff = 0
  NoLink = NoLink
  NoCand = NoCand
  NoClient = NoClient
CHECK_DEADLOCK FALSE
PROPERTY SerialOverridesBle
