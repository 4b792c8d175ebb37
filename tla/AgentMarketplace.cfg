\* Three runs, each of which may fail or be killed at any step, of the installer
\* and the uninstaller, on machines that other bridges have used.
CONSTANTS
  s1 = s1
  s2 = s2
  Siblings = {s1, s2}
  Machines <- AllMachines
  MaxRuns = 3
SPECIFICATION Spec
INVARIANTS
  CodexRootIsWhole
  SiblingsSurvive
PROPERTIES
  CodexIsRestored
CHECK_DEADLOCK FALSE
