SPECIFICATION FairSpec
CONSTANTS
  radio = radio
  nav = nav
  phone = phone
  Devices = {radio, nav}
  Broadcast = Broadcast
  Script <- CrossScript
  MaxRepeat = 1
  CacheSize = 6
  TxSize = 2
  MultiLimit = 5
  AllowStaggered = TRUE
  MaxLoss = 0
  MaxExpiry = 0
INVARIANTS
  AckedNotLost
  UnrepeatedInOrder
  AckMeansRead
PROPERTIES
  EveryMessageArrives
