SPECIFICATION Spec
CONSTANTS
  Lines = {l1}
  MaxTurns = 2
  MaxCalls = 2
INVARIANTS
  TypeOK
  EvidenceJudged
  OutcomeHonest
  RunAccountedFor
PROPERTIES
  RunEnds
