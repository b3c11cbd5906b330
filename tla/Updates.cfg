\* A launch against one other process; at most two operations, one crash.
CONSTANTS
  a = a
  b = b
  Procs = {a, b}
  Versions = {10, 11, 20}
  Bundle = 10
  Major <- MajorOf
  Stable = {10, 11, 20}
  Compatible = {10, 11}
  Installed = {11}
  Requests = {11}
  Patches <- MCPatches
  Dirs = 2
  None = None
  Empty = Empty
  Torn = Torn
  Bundled = Bundled
  Starts <- MCStarts
  MaxStarts = 2
  MaxGeneration = 2
  MaxCrashes = 1
SPECIFICATION Spec
INVARIANTS TypeOK SelectionFits HeldVersionKept ResumeKeepsPreferences
PROPERTY LoneUpdateRaises
CHECK_DEADLOCK FALSE
