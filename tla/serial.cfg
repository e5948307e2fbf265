SPECIFICATION FairSpec
CONSTANTS
  Main = Main
  t1 = t1
  t2 = t2
  Threads = {t1, t2}
  AckFlags <- ThreeFlags
  MaxNesting = 1
  MaxLeaks = 1
INVARIANTS
  OneFlusher
  PingAlone
  SentInOrder
PROPERTIES
  WriteToCacheReturns
