\* Two alerts, two label maps and two incidents: open incidents side by side.
SPECIFICATION Spec
CONSTANTS
  Sources = {"pagerduty"}
  AlertIds = {a1, a2}
  LabelSets = {l1, l2}
  IncidentIds = {i1, i2}
  Outcomes = {"completed"}
  Times <- MCTwoTimes
  IdleTtl = 1
SYMMETRY Symmetry
INVARIANTS
  TypeOK
  IndexesExact
  AlertsDistinctAndKeyed
PROPERTIES
  ImplementsLifecycle
\* The model ends when every incident id is used up.
CHECK_DEADLOCK FALSE
