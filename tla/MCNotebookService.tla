------------------------- MODULE MCNotebookService -------------------------
(***************************************************************************)
(* Small instances of NotebookService for TLC.  Safety only, so workers,   *)
(* keys, identifiers and contents may be permuted.                         *)
(***************************************************************************)
EXTENDS NotebookService, TLC

Symmetry ==
  Permutations(Workers) \union Permutations(NotebookIds)
    \union Permutations(CreateKeys) \union Permutations(SaveKeys)
    \union Permutations(Contents)
=============================================================================
