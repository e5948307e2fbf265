SPECIFICATION Spec
CONSTANTS
  radio = radio
  nav = nav
  phone = phone
  Devices = {radio, nav}
  Broadcast = Broadcast
  Script <- OneSplitScript
  MaxRepeat = 1
  CacheSize = 2
  TxSize = 2
  MultiLimit = 5
  AllowStaggered = TRUE
  MaxLoss = 0
  MaxExpiry = 1
INVARIANTS
  ResendIsData
