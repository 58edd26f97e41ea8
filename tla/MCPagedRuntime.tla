--------------------------- MODULE MCPagedRuntime ---------------------------
(* PagedRuntime with three requests for two places, and two layers of       *)
(* different length: pages of two tokens, so tables grow, and one layer     *)
(* runs out of length before the other.                                     *)
EXTENDS PagedRuntime, TLC

CONSTANTS l1, l2

MCMaxLen == (l1 :> 3) @@ (l2 :> 2)

Symmetry == Permutations(Requests)
=============================================================================
