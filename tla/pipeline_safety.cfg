\* Three alerts and three incidents, enough for a request to be shed, and a
\* worker that may panic.
SPECIFICATION Spec
CONSTANTS
  Sources = {"pagerduty"}
  AlertIds = {a1}
  LabelSets = {l1}
  IncidentIds = {i1, i2, i3}
  Outcomes = {"completed"}
  Times <- MCTimes
  IdleTtl = 1
  AlertsCapacity = 2
  RequestCapacity = 1
  ResultCapacity = 1
  MaxPanics = 1
  MaxAlerts = 3
  Deliveries <- MCDeliveries
SYMMETRY Symmetry
INVARIANTS
  TypeOK
  AcceptedAlertsAccounted
  OneQuestionPerIncident
  DropsAreReal
PROPERTIES
  ImplementsIncidents
  ImplementsChannel
