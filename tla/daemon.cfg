\* Two requests of a pair, every limit at 1, with fairness.
CONSTANTS
  a1 = a1
  a2 = a2
  b1 = b1
  s1 = s1
  s2 = s2
  ta = ta
  tb = tb
  NoJob = NoJob
  Threads = {ta, tb}
  ThreadOf <- Tasks
  Mode <- Modes
  MaxLanes = 1
  LaneCapacity = 1
  SteerCapacity = 1
  Jobs = {a1, a2, b1, s1, s2}
SPECIFICATION PairsSpec
INVARIANTS CountersHold AcknowledgedDone Fifo LaneAlive DrainedMeansDone
PROPERTIES NoUseLostToShutdown Served StopEnds
