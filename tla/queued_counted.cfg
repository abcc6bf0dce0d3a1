\* A request sent while the receiver goes away is not counted.
SPECIFICATION Spec
CONSTANTS
  Sources = {"pagerduty"}
  AlertIds = {a1}
  LabelSets = {l1}
  IncidentIds = {i1, i2}
  Outcomes = {"completed"}
  Times <- MCTimes
  IdleTtl = 1
  AlertsCapacity = 2
  RequestCapacity = 1
  ResultCapacity = 1
  MaxPanics = 0
  MaxAlerts = 2
  Deliveries <- MCDeliveries
SYMMETRY Symmetry
INVARIANTS
  QueuedIsCounted
