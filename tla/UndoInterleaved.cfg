\* Two transactions whose edits interleave, one of which fails.
CONSTANTS
  CommandIds = {t1, t2}
  Transactions = {t1, t2}
  Replacements = {}
  Edits = 2
  NoMarker = NoMarker
SPECIFICATION UndoSpec
INVARIANTS
  RollbackIsComplete
