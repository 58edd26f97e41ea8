---------------------------- MODULE DenseAttention ----------------------------
(***************************************************************************)
(* Attention without pages (CausalAttentionKernel of                        *)
(* tiny_llm/runtime/cuda/cuda_kernels.cpp): each layer has room for the     *)
(* keys and values of one sequence, and counts the rows that are filled.    *)
(* execute takes the layers one after another and may throw between two;    *)
(* those that were done have counted the tokens, the others have not.       *)
(***************************************************************************)
EXTENDS PagedRuntime

CONSTANT AttnTasks  \* the layers, in the order of the plan

ASSUME DenseAssumption ==
  /\ AttnTasks \in Seq(Layers)
  /\ Range(AttnTasks) = Layers /\ IsInjective(AttnTasks)

VARIABLES
  cache_length,  \* of each layer's kernel
  ran            \* how many layers this call of execute has done

denseVars == <<cache_length, ran>>

DInit == cache_length = [l \in Layers |-> 0] /\ ran = 0

(* (fault) a prefill goes on where the sequence before ended.               *)
CacheBefore_Kept(l) == cache_length[l]

(* The rows a layer goes on from: a prefill starts a sequence.              *)
CacheBefore(l) == IF is_prefill_ THEN 0 ELSE cache_length[l]

(* The checks of dtype_shape_infer and execute on num tokens.               *)
Takes(l, num) ==
  /\ is_prefill_ \/ num = 1
  /\ num + CacheBefore(l) <= MaxLen[l]

NextLayer == AttnTasks[ran + 1]

RunLayer(num) ==
  /\ ran < Len(AttnTasks) /\ Takes(NextLayer, num)
  /\ cache_length' = [cache_length EXCEPT ![NextLayer] = num + CacheBefore(NextLayer)]
  /\ ran' = ran + 1

(* A layer refuses the tokens: it has gone back to an empty cache already,  *)
(* if this is a prefill.                                                    *)
LayerThrows(num) ==
  /\ ran < Len(AttnTasks) /\ ~Takes(NextLayer, num)
  /\ cache_length' = [cache_length EXCEPT ![NextLayer] = CacheBefore(NextLayer)]
  /\ ran' = 0

LayersDone == ran = Len(AttnTasks) /\ ran' = 0 /\ UNCHANGED cache_length

(* Any call of CUDA may fail.                                               *)
LayersAbandoned == ran' = 0 /\ UNCHANGED cache_length
=============================================================================
