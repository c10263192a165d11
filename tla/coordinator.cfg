\* One task: two queue messages, a queue and a steer message, or two steer messages; with fairness.
CONSTANTS
  q1 = q1
  q2 = q2
  s1 = s1
  s2 = s2
  t1 = t1
  NoOne = NoOne
  Threads = {t1}
  ThreadOf <- OneThread
  Mode <- Modes
  Deliveries = {q1, q2, s1, s2}
SPECIFICATION PairsSpec
INVARIANTS PermitExclusion GatesReturned DesktopQuarantine AtMostOnce TruthfulResult
PROPERTIES NoOverlap KeepsPromise Termination
