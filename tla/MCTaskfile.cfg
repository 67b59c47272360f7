SPECIFICATION FairSpec
CONSTANTS
  top = top
  above = above
  a = a
  b = b
  Here = Here
  Remote = Remote
  Malformed = Malformed
  None = None
  Args = Args
  Dir <- MCDir
  Upward <- MCUpward
  Projects <- MCProjects
  GlobLists <- MCGlobs
INVARIANTS TypeOK ListsEveryChain
PROPERTIES Terminates
