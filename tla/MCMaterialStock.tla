--------------------------- MODULE MCMaterialStock --------------------------
(***************************************************************************)
(* Instance of MaterialStock for TLC: one entity with a life span, two     *)
(* without, two lines.                                                     *)
(***************************************************************************)
EXTENDS MaterialStock, TLC

Symmetry == Permutations(Assignment) \union Permutations(Entity \ Lifespan)
=============================================================================
