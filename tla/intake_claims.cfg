\* Two ids, two tasks, two URLs with up to two uses, and three requests.
CONSTANTS
  Ids = {i1, i2}
  Threads = {ta, tb}
  Tokens = {k1, k2}
  Requests = {r1, r2, r3}
  MaxUses = 2
  Unlimited = Unlimited
  None = None
SPECIFICATION Spec
SYMMETRY Interchangeable
INVARIANTS UsesAccounted RightTask
PROPERTIES ClaimsLiveUrl
\* Requests and tokens run out.
CHECK_DEADLOCK FALSE
