-------------------------- MODULE MCPagedAttention --------------------------
(* PagedAttention with two requests and two layers of different length:      *)
(* pages of two tokens, so a prompt of three spans pages and a prompt of    *)
(* one grows into a second page in decode.                                  *)
EXTENDS PagedAttention, TLC

CONSTANTS l1, l2

MCMaxLen == (l1 :> 3) @@ (l2 :> 4)

Symmetry == Permutations(Requests)
=============================================================================
