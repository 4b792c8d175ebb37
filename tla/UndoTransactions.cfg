\* Two transactions, a replacement and a command without a transaction, in any
\* order and any overlap.
CONSTANTS
  CommandIds = {t1, t2, r, p}
  Transactions = {t1, t2}
  Replacements = {r}
  Edits = 2
  NoMarker = NoMarker
SPECIFICATION UndoSpec
INVARIANTS
  UncrossedRollback
  FinishedWorkStays
