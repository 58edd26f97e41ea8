----------------------------- MODULE MCPipeline -----------------------------
(* Two calls of Pipeline::apply, of one to three prompts each where two, or *)
(* one without pages, are allowed, with prompts of one or two tokens, up to *)
(* three new tokens, and max_position_embeddings of three: calls that just  *)
(* fit, and calls that do not.                                              *)
EXTENDS Pipeline, TLC

CONSTANTS l1, l2

MCMaxLen == (l1 :> 3) @@ (l2 :> 3)
MCAttnTasks == <<l1, l2>>
MCExp == [x \in 0 .. 4 |-> 2 ^ x]
MCRequests == (1 .. MaxCalls) \X (1 .. MaxPrompts)
=============================================================================
