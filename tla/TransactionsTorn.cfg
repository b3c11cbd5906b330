\* One interrupted write, no editor.
CONSTANTS
  Sessions = {s1, s2}
  Mutations = {m1, m2}
  Reconciliations = {}
  Revisions = {0, 1, 2}
  FirstRevision = 0
  None = None
  Torn = Torn
  Unreadable = Unreadable
  Free = Free
  Orphaned = Orphaned
  Open = Open
  Retired = Retired
  TornWrites = TRUE
  MaxEdits = 0
  MaxFaults = 1
SPECIFICATION Spec
PROPERTY RecoveryFinalizes
