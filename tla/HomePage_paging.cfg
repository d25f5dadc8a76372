\* Three notebooks on pages of one; two of: a refresh, a deletion, an operation,
\* a change by another client.
CONSTANTS
  Notebooks = {1, 2, 3}
  Limit = 1
  MaxTime = 1
  Keys = {1, 2}
  MaxEvents = 2
  None = None
CHECK_DEADLOCK FALSE
SPECIFICATION FairSpec
INVARIANTS
  TypeOK
  ListComplete
  DeletedStaysOut
  NoForgottenCreate
PROPERTIES
  PagingEnds
