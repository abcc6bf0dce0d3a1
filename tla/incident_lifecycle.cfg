\* One label map, so that incidents of one key follow each other, and
\* investigations that may fail.
SPECIFICATION Spec
CONSTANTS
  Sources = {"pagerduty"}
  AlertIds = {a1, a2}
  LabelSets = {l1}
  IncidentIds = {i1, i2}
  Outcomes = {"completed", "failed"}
  Times <- MCTimes
  IdleTtl = 1
SYMMETRY Symmetry
INVARIANTS
  ResolvedWhenAllResolved
  IdleMeansSilent
  AskedInOrderAndOnce
PROPERTIES
  ClosedIsFinal
  IdleNeverRevived
  AnswersAreKept
\* The model ends when every incident id is used up.
CHECK_DEADLOCK FALSE
