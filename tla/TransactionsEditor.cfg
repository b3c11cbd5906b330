\* An editor saves while a commit is under way.
CONSTANTS
  Sessions = {s1, s2}
  Mutations = {m1, m2}
  Reconciliations = {}
  Revisions = {0, 1, 2}
  FirstRevision = 0
  None = None
  Torn = Torn
  Unreadable = Unreadable
  Free = Free
  Orphaned = Orphaned
  Open = Open
  Retired = Retired
  TornWrites = FALSE
  MaxEdits = 1
  MaxFaults = 0
SPECIFICATION Spec
PROPERTY ReplacesPrior
