\* Finitely many failures and a user who presses Save again.
CONSTANTS
  Notebook = nb
  Cells = {a}
  Sources = {s1, s2}
  Rejected = {}
  OtherKeys = {k1}
  Features = {"run"}
  MaxGeneration = 3
  MaxOperations = 5
  MaxFailures = 1
  None = None
SPECIFICATION FairSpec
CHECK_DEADLOCK FALSE
PROPERTIES
  SavingEnds
  RunEnds
  FinallySaved
