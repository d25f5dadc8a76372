\* Edits, runs, a refused text, failures and another client; no reload.
CONSTANTS
  Notebook = nb
  Cells = {a, b}
  Sources = {s1, s2, s3}
  Rejected = {s3}
  OtherKeys = {k1}
  Features = {"run"}
  MaxGeneration = 3
  MaxOperations = 3
  MaxFailures = 1
  None = None
SPECIFICATION Spec
SYMMETRY Symmetry
CHECK_DEADLOCK FALSE
INVARIANTS
  TypeOK
  SavedIsStored
  NothingOverwrittenUnseen
  ConflictIsForeign
  QuietMeansSaved
PROPERTIES
  OutputsMatchSource
