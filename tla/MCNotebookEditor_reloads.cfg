\* Reloads and page refreshes, no cell run: they never meet a PUT of this page.
CONSTANTS
  Notebook = nb
  Cells = {a}
  Sources = {s1, s2, s3}
  Rejected = {}
  OtherKeys = {k1}
  Features = {"reload", "refresh"}
  MaxGeneration = 2
  MaxOperations = 2
  MaxFailures = 1
  None = None
SPECIFICATION Spec
SYMMETRY Symmetry
INVARIANTS
  SavedIsStored
  NothingOverwrittenUnseen
