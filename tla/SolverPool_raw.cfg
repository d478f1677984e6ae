SPECIFICATION Spec
CONSTANTS
  w1 = w1
  w2 = w2
  w3 = w3
  NoWorker = NoWorker
  Workers <- TwoWorkers
  Lines = 3
  Modes = {TRUE}
  RawText <- AnyMemory
  Garbage = Garbage
INVARIANTS
  OutputInOrder
