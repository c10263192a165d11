\* Two versions of which one is kept, two ports.
CONSTANTS
  Versions = {v1, v2}
  Ports = {p1, p2}
  DefaultPort = p1
  Public = Public
  None = None
  Keep = 1
  MaxCommands = 3
SPECIFICATION BoundedSpec
INVARIANTS ServiceRunnable SetupComplete
PROPERTIES KeepsAddress 
