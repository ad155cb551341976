----------------------------- MODULE MCTileServing -----------------------------
(***************************************************************************)
(* Two clients that ask for tokens, for composite tiles and for one route  *)
(* each of the other kinds.                                                *)
(***************************************************************************)
EXTENDS TileServing

MCRoutesOf == [r \in Reqs |-> {"composite", "drawer", "search"}]

Symmetry == Permutations(Reqs)

=============================================================================
