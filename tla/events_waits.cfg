\* Up to three turns, every wait, with fairness.
CONSTANTS
  N = 3
  Modes = {"idle", "activity", "reconcile"}
SPECIFICATION FairSpec
INVARIANTS SleepsForAReason VerdictWasTrue
PROPERTIES Noticed
