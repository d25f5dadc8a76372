\* One notebook, two PUT keys: concurrent saves, retries, deletion, reads with
\* and without If-None-Match, crashes.
CONSTANTS
  Workers = {w1, w2}
  NotebookIds = {n1}
  CreateKeys = {k1}
  SaveKeys = {k2, k3}
  BaseRevisions = {1, 2}
  Contents = {c1, c2}
  Ops = {"create", "save", "delete", "get", "revision"}
  None = None
SPECIFICATION Spec
SYMMETRY Symmetry
INVARIANTS
  TypeOK
  HistoryComplete
  RevisionsReadable
  ExactlyOnce
  NoLostUpdate
  AcknowledgedIsCommitted
  NoInternalError
  ReadsAreCurrent
  ConflictIsReal
PROPERTIES
  NoResurrection
  StoreImplemented
