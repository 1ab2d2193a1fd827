-------------------------- MODULE MCBlockingQueue --------------------------
(***************************************************************************)
(* BlockingQueue with few threads, for TLC.  The threads of one kind are   *)
(* interchangeable.                                                        *)
(***************************************************************************)
EXTENDS BlockingQueue, TLC

Symmetry ==
    Permutations(Producers) \union Permutations(Consumers) \union Permutations(Controllers)
=============================================================================
