\* Two calls, jobs or sessions at a time; two of every name; one fault.
CONSTANTS
  Calls = {a, b}
  Items = {x, y}
  Names = {m, n}
  Mutations = {u}
  Plans = {plain, issue}
  OpenIssue = {issue}
  Ops = {o1, o2, o3}
  Paths = {p, q}
  Releases = {g, h}
  Signed = {g}
  Person = {1, 2}
  Foreign = {9}
  MaxStarts = 4
  MaxFaults = 1
  MigrationRevisions = 3
  StoredRevisions = 1
  ReviewRevisions = 4
  DialogRevisions = 4
  MaxPreviews = 1
  FirstRules = 1
  Rules = {1, 2}
  MaxApprovals = 2
  MaxTurns = 2
  MaxIds = 3
  MaxRedirects = 1
  MaxInstalls = 2
  MaxLines = 4
  MaxCommands = 3
  MaxLosses = 1
  None = None
SPECIFICATION Spec
SYMMETRY Symmetry
INVARIANTS TypeOK MigrationSafe EvidenceSafe FilesSafe PackageFaithful RuntimeIsSigned EnteredIsKept
PROPERTY ReviewsHold
CHECK_DEADLOCK FALSE
