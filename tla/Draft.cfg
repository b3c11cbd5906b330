\* Two edits, one commit of another process, one lost answer or refusal, two mutations.
CONSTANTS
  Fields = {f, g}
  Values <- MCValues
  None = None
  MaxPatches = 2
  MaxEdits = 2
  MaxOthers = 1
  MaxMishaps = 1
  ClosesBusyDialog = FALSE
SPECIFICATION Spec
INVARIANTS TypeOK NothingLost Truthful LossIsHarmless
PROPERTY EditsSettle
CHECK_DEADLOCK FALSE
