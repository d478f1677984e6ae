SPECIFICATION FairSpec
CONSTANTS
  w1 = w1
  w2 = w2
  w3 = w3
  NoWorker = NoWorker
  Workers <- ThreeWorkers
  Lines = 3
  Modes = {TRUE, FALSE}
  RawText <- ZeroedMemory
  Garbage = Garbage
INVARIANTS
  TypeOK
  NothingHeldBack
  AllAnswered
PROPERTIES
  ServiceImplemented
  WorkersEnd
