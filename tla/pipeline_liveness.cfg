\* Fair workers, one of which may panic; providers that may never answer.
SPECIFICATION FairSpec
CONSTANTS
  Sources = {"pagerduty"}
  AlertIds = {a1}
  LabelSets = {l1}
  IncidentIds = {i1, i2}
  Outcomes = {"completed"}
  Times = {0}
  IdleTtl = 1
  AlertsCapacity = 2
  RequestCapacity = 1
  ResultCapacity = 1
  MaxPanics = 1
  MaxAlerts = 2
  Deliveries <- MCDeliveries
PROPERTIES
  AlertsSettled
  ShutdownCompletes
  QuestionsEnd
