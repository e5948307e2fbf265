SPECIFICATION FairSpec
CONSTANTS
  radio = radio
  nav = nav
  phone = phone
  Devices = {radio, nav}
  Broadcast = Broadcast
  Script <- CrossScript
  MaxRepeat = 1
  CacheSize = 1
  TxSize = 2
  MultiLimit = 5
  AllowStaggered = TRUE
  MaxLoss = 1
  MaxExpiry = 0
INVARIANTS
  TypeOK
PROPERTIES
  WritesReturn
