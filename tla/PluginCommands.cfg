\* Every batch of two of a hundred operations, batches of three with named
\* steps and references, and the other commands that change a document.
CONSTANTS
  Document <- SmallDocument
  Commands <- AllCommands
  MaxMatches = 1
SPECIFICATION CommandSpec
INVARIANTS
  TransactionsAreAtomic
  ReferencesAreAvailable
  RefusedBeforeTheFirst
  PreviewNamesTargets
  NothingIsSeenToMove
CHECK_DEADLOCK FALSE
