\* A file that grows past the cap after it was looked at.
SPECIFICATION Spec
CONSTANTS
  Cap = 2
  Contents <- MCContents
  MaxEvents = 1
INVARIANTS
  ExtraByteTells
