SPECIFICATION FairSpec
CONSTANTS
  MaxDeps = 1
  NoPrefix = NoPrefix
  Name <- MCName
  Def <- MCDef
  Programs <- MCPrograms
  Builtins <- MCBuiltins
  CommandLines <- MCArgs
  DefaultArgs <- HelpArgs
INVARIANTS TypeOK AtMostOnce ExactlyTheRequired PrefixScoped PrereqsFirst
PROPERTIES ImplementsSchedule Terminates
