\* Two threads start and stop the runtime of one notebook.
CONSTANTS
  Workers = {w1, w2}
  Notebooks = {n1}
  MaxRuntimes = 2
  Operations = {"get", "delete"}
  Faults = {}
  None = None
CHECK_DEADLOCK FALSE
SPECIFICATION Spec
SYMMETRY Symmetry
INVARIANT StopDestroys
