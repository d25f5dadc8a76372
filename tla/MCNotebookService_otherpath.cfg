\* The same key and body sent to two notebooks.
CONSTANTS
  Workers = {w1}
  NotebookIds = {n1, n2}
  CreateKeys = {k1, k2}
  SaveKeys = {k3}
  BaseRevisions = {1}
  Contents = {c1, c2}
  Ops = {"create", "save"}
  None = None
SPECIFICATION Spec
SYMMETRY Symmetry
INVARIANT SaveAnswersItsNotebook
