\* Two sessions, a patch and a reconciliation, an edit, one fault, torn files.
CONSTANTS
  Sessions = {s1, s2}
  Mutations = {m1, m2}
  Reconciliations = {m2}
  Revisions = {0, 1, 2}
  FirstRevision = 0
  None = None
  Torn = Torn
  Unreadable = Unreadable
  Free = Free
  Orphaned = Orphaned
  Open = Open
  Retired = Retired
  TornWrites = TRUE
  MaxEdits = 1
  MaxFaults = 1
SPECIFICATION Spec
SYMMETRY SessionSymmetry
INVARIANTS TypeOK FinalizedReceiptKept HistoryChain EvidenceInPlace
PROPERTY ImplementsLedger
