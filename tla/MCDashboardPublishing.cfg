SPECIFICATION Spec
CONSTANTS
  Subjects <- MCSubjects
  Cards <- MCCards
  Cells <- MCCells
  Blocked <- MCBlocked
  SafeName <- MCSafeName
  MaxStarts = 4
  None = None
INVARIANTS
  TypeOK
  PublishedSiteAgrees
  LatestReportsAreShown
CHECK_DEADLOCK FALSE
