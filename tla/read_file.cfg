\* Every file of up to four bytes, and up to two changes while it is read.
SPECIFICATION Spec
CONSTANTS
  Cap = 2
  Contents <- MCContents
  MaxEvents = 2
INVARIANTS
  TypeOK
  StillFileReadRight
  AnswerFits
  NoNoticeMeansWhole
