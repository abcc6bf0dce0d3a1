\* Every retry policy with delays up to nine milliseconds.
SPECIFICATION RespondingSpec
CONSTANTS
  Delays <- MCDelays
INVARIANTS
  TypeOK
  GivesUpOnUnusableOutput
PROPERTIES
  BacksOffToTheCap
  CallEnds
\* A call ends.
CHECK_DEADLOCK FALSE
