\* One fault after the rename, no editor, no torn file.
CONSTANTS
  Sessions = {s1, s2}
  Mutations = {m1, m2}
  Reconciliations = {m2}
  Revisions = {0, 1, 2}
  FirstRevision = 0
  None = None
  Torn = Torn
  Unreadable = Unreadable
  Free = Free
  Orphaned = Orphaned
  Open = Open
  Retired = Retired
  TornWrites = FALSE
  MaxEdits = 0
  MaxFaults = 1
SPECIFICATION Spec
PROPERTY CommittedReceiptKept
