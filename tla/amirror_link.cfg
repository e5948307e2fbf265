SPECIFICATION Spec
CONSTANTS
  text = text
  list = list
  nav = nav
  radio = radio
  All = All
  Me = Me
  Out <- MCOut
  Dest <- MCDest
  Frags <- MCFrags
  Menus = {list}
  Clears = {}
  Devices = {nav, radio}
  Flagged = {radio}
  Arrivals <- BusArrivals
  ReadMax = 2
  Tries <- MCTries
  GiveUp = 0
  MaxChanges = 0
  MaxDue = 1
INVARIANTS
  OneReader
  AckedOnce
  MultiOnePair
  ResendIsLatest
PROPERTIES
  ImplementsOutbox
