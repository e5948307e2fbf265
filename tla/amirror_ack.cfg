SPECIFICATION FairSpec
CONSTANTS
  text = text
  list = list
  nav = nav
  radio = radio
  All = All
  Me = Me
  Out <- MCOut
  Dest <- MCDest
  Frags <- MCFrags
  Menus = {list}
  Clears = {text}
  Devices = {nav, radio}
  Flagged = {radio}
  Arrivals <- NoArrivals
  ReadMax = 2
  Tries <- MCTries
  GiveUp = 0
  MaxChanges = 1
  MaxDue = 1
INVARIANTS
  TypeOK
PROPERTIES
  TxSent
  BothEnd
