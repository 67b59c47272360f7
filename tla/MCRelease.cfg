SPECIFICATION Spec
CONSTANTS
  Job = {j1, j2}
  GlobalKeys = {"user.name", "core.sshCommand"}
  CloneKeys = {}
  Persisted = TRUE
  MaxAttempts = 2
  MaxFaults = 2
SYMMETRY Jobs
INVARIANTS TypeOK PublisherMadeTheTag ConfigSurvives SecretsConfined
PROPERTY PushedAsGiven
CHECK_DEADLOCK FALSE
