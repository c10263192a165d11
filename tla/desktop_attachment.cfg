\* A start or a steer on one task, two entities, one reconnect.
CONSTANTS
  Keys = {k1, k2}
  t1 = t1
  Turns = {t1, t2}
  NoTurn = NoTurn
  Commands = {start, steer}
  Steers = {steer}
  Aim <- OneAim
  MaxCommands = 1
  MaxRevisions = 3
  MaxGenerations = 2
SYMMETRY NameSymmetry
SPECIFICATION Spec
INVARIANTS ViewFaithful NoStaleResync
PROPERTIES KeepsContract ConfirmedByTheOwner
