\* Two threads, failures of Docker and of the database, and crashes.
CONSTANTS
  Workers = {w1, w2}
  Notebooks = {n1}
  MaxRuntimes = 2
  Operations = {"get", "delete", "connection"}
  Faults = {"crash", "docker", "database"}
  None = None
SPECIFICATION Spec
SYMMETRY Symmetry
INVARIANTS
  TypeOK
  ReadyHasContainer
  StoppedIsGone
