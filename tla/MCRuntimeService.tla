--------------------------- MODULE MCRuntimeService -------------------------
(***************************************************************************)
(* Small instances of RuntimeService for TLC.                              *)
(***************************************************************************)
EXTENDS RuntimeService, TLC

\* Safety runs only.
Symmetry == Permutations(Workers) \union Permutations(Notebooks)
=============================================================================
