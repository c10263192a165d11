\* Two candidates, two names for bindings; one mutation or one unanswered query, with fairness.
CONSTANTS
  Mutations = {m1}
  Queries = {q1}
  Candidates = {1, 2}
  Bindings = {b1, b2}
  NoBinding = NoBinding
SPECIFICATION OneCallSpec
INVARIANTS NoOrphan Wakeable
PROPERTIES NoLiveSwap KeepsContract MutationsEnd Recovers
