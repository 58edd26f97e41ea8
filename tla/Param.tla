-------------------------------- MODULE Param --------------------------------
(***************************************************************************)
(* The operations a graph is made of (tiny_llm/graph/param.hpp, param.cpp): *)
(* how many tensors each reads and writes, and the operand it overwrites.   *)
(* A param is [kind, bias, inplace, pin, paged, left_idx, right_idx,        *)
(* out_idx, dims]: the fields of the variant with the defaults of the code, *)
(* its sizes in the record dims; theta and eps are left out.                *)
(***************************************************************************)
EXTENDS Naturals

Param(kind) ==
  [kind |-> kind, bias |-> FALSE, inplace |-> FALSE, pin |-> FALSE, paged |-> FALSE,
   left_idx |-> 0, right_idx |-> 1, out_idx |-> 2, dims |-> [x \in {} |-> 0]]

Sized(kind, dims) == [Param(kind) EXCEPT !.dims = dims]

(* Add or Mul, whose result takes the place of the operand at out_idx when  *)
(* there is one.                                                            *)
Arithmetic(kind, out_idx) == [Param(kind) EXCEPT !.out_idx = out_idx]

extern_input_num(param) ==
  CASE param.kind = "Rope" -> 0
    [] param.kind \in {"Add", "Mul"} -> 2
    [] param.kind = "CausalAttention" -> 4
    [] OTHER -> 1

(* What kInputVisitor adds to them: the weights, and their biases.          *)
weight_num(param) ==
  CASE param.kind \in {"Embedding", "RMSNorm"} -> 1
    [] param.kind \in {"Linear", "SliceLinear"} -> IF param.bias THEN 2 ELSE 1
    [] param.kind = "CausalAttention" -> IF param.bias THEN 8 ELSE 4
    [] OTHER -> 0

input_num(param) == extern_input_num(param) + weight_num(param)

output_num(param) == IF param.kind = "Rope" THEN 2 ELSE 1

(* The operands worked in place on, counted from 0: at most one.            *)
get_inplace_input_ids(param) ==
  CASE param.kind \in {"SiLU", "RMSNorm"} /\ param.inplace -> {0}
    [] param.kind \in {"Add", "Mul"} -> {param.out_idx} \cap {param.left_idx, param.right_idx}
    [] OTHER -> {}
=============================================================================
