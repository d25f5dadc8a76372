\* Three threads, clients that poll and stop one runtime, a container that dies.
CONSTANTS
  Workers = {w1, w2, w3}
  Notebooks = {n1}
  MaxRuntimes = 1
  Operations = {"get", "delete"}
  Faults = {}
  None = None
CHECK_DEADLOCK FALSE
SPECIFICATION FairSpec
PROPERTIES
  DeathIsNoticed
  RequestsEnd
