\* One request at a time, containers that die.
CONSTANTS
  Workers = {w1}
  Notebooks = {n1, n2}
  MaxRuntimes = 3
  Operations = {"get", "delete", "connection"}
  Faults = {}
  None = None
CHECK_DEADLOCK FALSE
SPECIFICATION Spec
INVARIANTS
  NoStrayContainer
PROPERTIES
  PoolImplemented
