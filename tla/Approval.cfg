\* Two calls at a time, four in all, two mutations, one fault.
CONSTANTS
  Calls = {a, b}
  Remembered = {g1, g2}
  Runs = {r1}
  Mutations = {m1, m2}
  MaxStarts = 4
  MaxFaults = 1
  None = None
SPECIFICATION Spec
SYMMETRY Symmetry
INVARIANTS TypeOK CallsProceed
PROPERTIES GrantsHold ReviewedCandidate
CHECK_DEADLOCK FALSE
