SPECIFICATION Spec
CONSTANTS
  radio = radio
  nav = nav
  phone = phone
  Devices = {radio, nav, phone}
  Broadcast = Broadcast
  Script <- SplitScript
  MaxRepeat = 1
  CacheSize = 6
  TxSize = 2
  MultiLimit = 5
  AllowStaggered = TRUE
  MaxLoss = 0
  MaxExpiry = 0
CONSTRAINT OnePairRepeats
INVARIANTS
  MultiOnePair
  WholeUnlessRepeated
