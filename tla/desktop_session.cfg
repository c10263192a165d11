\* Three calls on one task, at most one at a time not a mutation, three connections.
CONSTANTS
  Calls = {c1, c2, c3}
  t1 = t1
  Threads = {t1}
  Thread <- OneThread
  MaxConnections = 3
  MaxPending = 1
SPECIFICATION MixedSpec
SYMMETRY CallSymmetry
INVARIANTS EvidenceIsCurrent NoLostWakeup SnapshotExpected
PROPERTY KeepsSessionPromise
\* Calls and connections run out.
CHECK_DEADLOCK FALSE
