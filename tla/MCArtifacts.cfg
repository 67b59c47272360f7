SPECIFICATION Spec
CONSTANTS
  j1 = j1
  j2 = j2
  None = None
  Malformed = Malformed
  Job <- MCJob
  Calls <- MCCalls
  Name <- MCName
  Pattern <- MCPattern
  Selects <- MCSelects
  DefaultName <- MCDefaultName
  File <- MCFile
  Kind <- MCKind
  Run = {1, 2, 3}
  This = 2
  Earlier <- MCEarlier
  PageSize = 2
  MaxFaults = 1
INVARIANTS TypeOK DownloadIsWhole OverwritesItsName
