SPECIFICATION FairSpec
CONSTANTS
  Attempts = 4
  MaxDepth = 4
  None = None
  Versions = {"v1.0.0", "v1.1.0", "(Unreleased)"}
  Unreleased = "(Unreleased)"
INVARIANTS TypeOK TriggeredAsShown DefinitiveFallsBack
PROPERTIES ImplementsChangelog Terminates
