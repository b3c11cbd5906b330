\* No editor and no torn file: two patches and a reconciliation, two faults.
CONSTANTS
  Sessions = {s1, s2}
  Mutations = {m1, m2, m3}
  Reconciliations = {m3}
  Revisions = {0, 1, 2, 3}
  FirstRevision = 0
  None = None
  Torn = Torn
  Unreadable = Unreadable
  Free = Free
  Orphaned = Orphaned
  Open = Open
  Retired = Retired
  TornWrites = FALSE
  MaxEdits = 0
  MaxFaults = 2
SPECIFICATION Spec
SYMMETRY SessionSymmetry
PROPERTIES ReplacesPrior RecoveryFinalizes
