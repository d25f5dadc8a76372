--------------------------- MODULE MCNotebookEditor -------------------------
(***************************************************************************)
(* Small instances of NotebookEditor for TLC.                              *)
(***************************************************************************)
EXTENDS NotebookEditor, TLC

\* Safety runs only: nothing distinguishes these values.
Symmetry == Permutations(Sources \ Rejected) \union Permutations(OtherKeys)
              \union Permutations(Cells)
=============================================================================
