\* Three requests, one of them with every kind of body, for room for two
\* alerts; the server drains.
SPECIFICATION FairSpec
CONSTANTS
  Requests <- MCRequests
  Bodies <- MCBodies
  Enabled = {"grafana", "pagerduty"}
  Capacity = 2
INVARIANTS
  TypeOK
  PermitsConserved
  AnsweredIsAhead
  AllOrNothing
PROPERTIES
  ImplementsChannel
  ServerDrains
\* The server stops.
CHECK_DEADLOCK FALSE
