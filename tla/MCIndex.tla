-------------------------------- MODULE MCIndex --------------------------------
(* The observation store and its indexes on two observations with two texts.    *)
EXTENDS VerbatimStore, TLC

Symmetry == Permutations(Obs)
==============================================================================
