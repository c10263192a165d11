\* Two calls find the endpoint replaced; the second lookup answers late.
CONSTANTS
  Calls = {c1, c2}
  t1 = t1
  Threads = {t1}
  Thread <- OneThread
  MaxConnections = 3
  MaxPending = 1
SPECIFICATION Spec
SYMMETRY CallSymmetry
INVARIANTS OneConnection
\* Calls and connections run out.
CHECK_DEADLOCK FALSE
