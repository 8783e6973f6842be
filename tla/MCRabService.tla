--------------------------- MODULE MCRabService ---------------------------
(***************************************************************************)
(* Small instances of RabService for TLC.                                  *)
(***************************************************************************)
EXTENDS RabService, TLC

Symmetry ==
    Permutations(Jobs) \cup Permutations(Workers)
        \cup Permutations(Keys) \cup Permutations(Meanings)
=============================================================================
