SPECIFICATION Spec
CONSTANTS
  Caller = {main}
  Main = main
  UserCtx = {}
  Background = bg
  MaxContexts = 2
  HandlerKinds = {"plain", "panics", "registers"}
  MaxHandlers = 2
  MaxSignals = 3
INVARIANT CleanupOnCompletion
CHECK_DEADLOCK FALSE
