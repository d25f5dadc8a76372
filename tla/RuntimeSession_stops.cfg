\* Two notebooks, two runs, one Stop, a visit that interrupts them, containers
\* that die.
CONSTANTS
  Notebooks = {n1, n2}
  Runtimes = {1, 2}
  Links = {1, 2}
  Stops = {1}
  Mortal = {1}
  MaxVisits = 2
  None = None
CHECK_DEADLOCK FALSE
SPECIFICATION FairSpec
INVARIANTS
  TypeOK
  RunsInOwnRuntime
  ResultsComplete
  StopStopsShown
PROPERTIES
  BridgeEnds
  ExecutionEnds
