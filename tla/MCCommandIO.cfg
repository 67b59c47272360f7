\* One caller, so one command at a time, that prints up to twice on each stream, under two contexts.
CONSTANTS
  Caller = {c}
  UserCtx = {u}
  Background = bg
  MaxContexts = 2
  MaxPrints = 2
  OptionLists <- MCOptionLists
SPECIFICATION IOFairSpec
INVARIANTS IOTypeOK CurrentUsable NoSilentLoss FailureExplained
PROPERTY CancelledReturns
