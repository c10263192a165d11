\* Up to two turns, the wait for a cycle of activity.
CONSTANTS
  N = 2
  Modes = {"activity"}
SPECIFICATION Spec
INVARIANTS ActivityNoticed
