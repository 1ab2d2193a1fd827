-------------------------- MODULE MCMappingSignal --------------------------
(***************************************************************************)
(* MappingSignal with few threads, slots, keys and values, for TLC.  They  *)
(* are interchangeable within their kind.                                  *)
(***************************************************************************)
EXTENDS MappingSignal

Symmetry ==
    Permutations(Threads) \union Permutations(Handles)
    \union Permutations(Keys) \union Permutations(Values)
=============================================================================
