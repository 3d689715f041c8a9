--------------------------- MODULE MCBasketClient ---------------------------
(* Small instances of BasketClient for TLC. *)
EXTENDS BasketClient, TLC

\* Cards are alike.
Symmetry == Permutations(Item)
=============================================================================
