SPECIFICATION FairSpec
CONSTANTS
  Caller = {main}
  Main = main
  UserCtx = {}
  Background = bg
  MaxContexts = 2
  HandlerKinds = {"plain", "panics", "registers"}
  MaxHandlers = 2
  MaxSignals = 3
INVARIANTS TypeOK ZeroMeansSuccess HandlersUndoInOrder
PROPERTIES SignalEndsCommand SecondSignalExits
CHECK_DEADLOCK FALSE
