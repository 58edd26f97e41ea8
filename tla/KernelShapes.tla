----------------------------- MODULE KernelShapes -----------------------------
(***************************************************************************)
(* dtype_shape_infer of the kernels (tiny_llm/runtime/cuda/                 *)
(* cuda_kernels.cpp): what a kernel asks of the types and shapes of its     *)
(* operands, and what it makes of them.  It is called once with the largest *)
(* shapes when the plan is created, and again by every execution.           *)
(*                                                                         *)
(* A desc is [dtype, cur_shape].  meta is what else a kernel goes by:       *)
(* [is_prefill, num_requests], with no requests before any is bound.        *)
(***************************************************************************)
EXTENDS Param, SequencesExt

Desc(dtype, shape) == [dtype |-> dtype, cur_shape |-> shape]
Floats(shape) == Desc("kFloat32", shape)

element_num(shape) == IF shape = <<>> THEN 0 ELSE FoldLeft(LAMBDA a, b : a * b, 1, shape)

(* The checks on a desc.                                                    *)
IsFloats(desc, shape) == desc.dtype = "kFloat32" /\ desc.cur_shape = shape
EndsIn(desc, dim) ==
  desc.dtype = "kFloat32" /\ desc.cur_shape # <<>> /\ Last(desc.cur_shape) = dim

q_dim(dims) == dims.q_head * dims.head_dim
kv_dim(dims) == dims.kv_head * dims.head_dim

(* What every kernel of attention asks of its operands.                     *)
AttentionAccepts(param, ins) ==
  LET dims == param.dims
      hidden == ins[1].cur_shape
      q == q_dim(dims)
      kv == kv_dim(dims)
      weights == <<<<q, q>>, <<kv, q>>, <<kv, q>>, <<q, q>>>>
                   \o IF param.bias THEN <<<<q>>, <<kv>>, <<kv>>, <<q>>>> ELSE <<>>
  IN  /\ Len(hidden) = 3 /\ EndsIn(ins[1], q)
      /\ Len(ins[2].cur_shape) = 2 /\ EndsIn(ins[2], dims.head_dim \div 2)
      /\ IsFloats(ins[3], ins[2].cur_shape)
      /\ ins[4] = Desc("kUint32", Front(hidden))
      /\ \A k \in DOMAIN weights : IsFloats(ins[4 + k], weights[k])

(* A product with a matrix, and its bias if it has one.                     *)
LinearAccepts(param, ins) ==
  LET dims == param.dims
  IN  /\ EndsIn(ins[1], dims.in_dim)
      /\ IsFloats(ins[2], <<dims.out_dim, dims.in_dim>>)
      /\ param.bias => IsFloats(ins[3], <<dims.out_dim>>)

Accepts(param, ins) ==
  LET dims == param.dims
  IN  CASE param.kind = "SiLU" -> ins[1].dtype = "kFloat32"
        [] param.kind = "Embedding" ->
             /\ ins[1].dtype = "kUint32"
             /\ IsFloats(ins[2], <<dims.num_embeddings, dims.hidden_size>>)
        [] param.kind = "Rope" -> TRUE
        [] param.kind = "RMSNorm" ->
             EndsIn(ins[1], dims.hidden_size) /\ IsFloats(ins[2], <<dims.hidden_size>>)
        [] param.kind \in {"Add", "Mul"} -> ins[1] = ins[2]
        [] param.kind = "Linear" -> LinearAccepts(param, ins)
        [] param.kind = "CausalAttention" ->
             AttentionAccepts(param, ins) /\ (param.paged => ins[1].cur_shape[1] = 1)
        [] param.kind = "SliceLinear" ->
             /\ param.paged => dims.only_last_q = 1
             /\ Len(ins[1].cur_shape) = 3
             /\ IF param.paged THEN ins[1].cur_shape[1] = 1
                ELSE ins[1].cur_shape[2] >= dims.only_last_q
             /\ LinearAccepts(param, ins)

(* (fault) the plan, too, has a row only for the requests that are bound.   *)
RowsOut_NoneBound(param, rows, meta) ==
  IF param.paged THEN meta.num_requests ELSE param.dims.only_last_q

(* The rows of logits: as many as the requests, or, when the plan is        *)
(* created, as there can be.                                                *)
RowsOut(param, rows, meta) ==
  CASE ~param.paged -> param.dims.only_last_q
    [] param.paged /\ meta.num_requests > 0 -> meta.num_requests
    [] param.paged /\ meta.num_requests = 0 -> rows

OutDescs(param, ins, meta) ==
  LET dims == param.dims
      shape == ins[1].cur_shape
  IN  CASE param.kind = "Rope" ->
             LET table == Floats(<<dims.max_len, dims.head_dim \div 2>>) IN <<table, table>>
        [] param.kind = "Embedding" -> <<Floats(Append(shape, dims.hidden_size))>>
        [] param.kind = "Linear" -> <<Floats(Append(Front(shape), dims.out_dim))>>
        [] param.kind = "SliceLinear" ->
             <<Floats(<<shape[1], RowsOut(param, shape[2], meta), dims.out_dim>>)>>
        [] OTHER -> <<Desc(ins[1].dtype, shape)>>

(* What CausalAttentionKernel checks once it has described its output.      *)
AcceptsAfter(param, ins, meta) ==
  (param.kind = "CausalAttention" /\ ~param.paged) =>
    /\ ins[1].cur_shape[1] = 1
    /\ meta.is_prefill \/ ins[1].cur_shape[2] = 1

(* [outs, threw]: a kernel that throws may have described its outputs.      *)
dtype_shape_infer(param, ins, meta) ==
  IF ~Accepts(param, ins) THEN [outs |-> <<>>, threw |-> TRUE]
  ELSE [outs |-> OutDescs(param, ins, meta), threw |-> ~AcceptsAfter(param, ins, meta)]
=============================================================================
