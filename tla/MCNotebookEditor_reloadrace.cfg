\* A reload while a cell runs.
CONSTANTS
  Notebook = nb
  Cells = {a}
  Sources = {s1, s2}
  Rejected = {}
  OtherKeys = {}
  Features = {"run", "reload"}
  MaxGeneration = 3
  MaxOperations = 3
  MaxFailures = 0
  None = None
SPECIFICATION Spec
INVARIANT SavedIsStored
