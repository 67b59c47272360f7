\* As MCCommandIO: what a command prints, with the option Write.
CONSTANTS
  Caller = {c}
  UserCtx = {u}
  Background = bg
  MaxContexts = 2
  MaxPrints = 2
  OptionLists <- MCOptionLists
SPECIFICATION IOSpec
INVARIANT WriteRedirects
