\* One id reissued while a request sweeps its expired row.
CONSTANTS
  Ids = {i1}
  Threads = {ta}
  Tokens = {k1, k2}
  Requests = {r1}
  MaxUses = 1
  Unlimited = Unlimited
  None = None
SPECIFICATION Spec
INVARIANTS ValidUrlWorks
CHECK_DEADLOCK FALSE
