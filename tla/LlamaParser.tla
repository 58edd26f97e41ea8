----------------------------- MODULE LlamaParser -----------------------------
(***************************************************************************)
(* llama_parser (tiny_llm/parser/llama_parser.cpp): the graph of a Llama    *)
(* model, built by add_tensor and add_node.  A name is <<layer, node, part>>*)
(* with layer 0 for what is in no layer: the part is "" in the name of a    *)
(* node.  A config is [attention_bias, rope_scaling, hidden_act, vocab_size,*)
(* hidden_size, intermediate_size, num_attention_heads, num_hidden_layers,  *)
(* num_key_value_heads, max_position_embeddings], its sizes positive.       *)
(***************************************************************************)
EXTENDS Graph

Part(node, part) == <<node[1], node[2], part>>
Out(node) == Part(node, "out")

Weight(node, part, shape) == [name |-> Part(node, part), shape |-> shape]

(* The weights a node of this kind is given (it has no biases).             *)
Weights(node, param) ==
  LET dims == param.dims
      q == dims.q_head * dims.head_dim
      kv == dims.kv_head * dims.head_dim
  IN  CASE param.kind = "CausalAttention" ->
             <<Weight(node, "q_proj.weight", <<q, q>>),
               Weight(node, "k_proj.weight", <<kv, q>>),
               Weight(node, "v_proj.weight", <<kv, q>>),
               Weight(node, "o_proj.weight", <<q, q>>)>>
        [] param.kind = "Embedding" ->
             <<Weight(node, "weight", <<dims.num_embeddings, dims.hidden_size>>)>>
        [] param.kind = "RMSNorm" -> <<Weight(node, "weight", <<dims.hidden_size>>)>>
        [] param.kind \in {"Linear", "SliceLinear"} ->
             <<Weight(node, "weight", <<dims.out_dim, dims.in_dim>>)>>
        [] OTHER -> <<>>

OutputNames(node, param) ==
  IF param.kind = "Rope" THEN <<Part(node, "cos"), Part(node, "sin")>> ELSE <<Out(node)>>

Then(outcome, Call(_)) == IF outcome.threw THEN outcome ELSE Call(outcome.graph)

(* llama_add_node: the weights are declared, and the node is added.         *)
llama_add_node(outcome, call) ==
  LET weights == Weights(call.node, call.param)
      names == [k \in DOMAIN weights |-> weights[k].name]
      Declare(o, w) == Then(o, LAMBDA g : add_tensor(g, w.name, "kFloat32", w.shape))
      declared == FoldLeft(Declare, outcome, weights)
  IN  IF Len(call.extern_inputs) # extern_input_num(call.param) THEN Threw(outcome.graph)
      ELSE Then(declared,
                LAMBDA g : add_node(g, call.node, call.extern_inputs \o names,
                                    OutputNames(call.node, call.param), call.param))

Call(node, param, extern_inputs) ==
  [node |-> node, param |-> param, extern_inputs |-> extern_inputs]

token_ids == <<0, "token_ids", "">>
pos_ids == <<0, "pos_ids", "">>
embed_tokens == <<0, "model.embed_tokens", "">>
rope == <<0, "rope", "">>
model_norm == <<0, "model.norm", "">>
lm_head == <<0, "lm_head", "">>

In(layer, name) == <<layer, name, "">>

last_hidden_state(layers) ==
  IF layers = 0 THEN Out(embed_tokens) ELSE Out(In(layers, "mlp_residual"))

(* (fault) the residual is added in place of the hidden state.              *)
AttnResidual_InPlaceOfHidden(layer) == Arithmetic("Add", 0)

AttnResidual(layer) == Arithmetic("Add", 1)

head_dim(config) == config.hidden_size \div config.num_attention_heads

RMSNorm(config) == Sized("RMSNorm", [hidden_size |-> config.hidden_size])

Attention(config) ==
  Sized("CausalAttention",
        [head_dim |-> head_dim(config), q_head |-> config.num_attention_heads,
         kv_head |-> config.num_key_value_heads, max_len |-> config.max_position_embeddings])

(* The body of the loop over layers.                                        *)
LayerCalls(config, layer, paged) ==
  LET size == config.hidden_size
      hidden == last_hidden_state(layer - 1)
      norm == In(layer, "input_layernorm")
      attn == In(layer, "self_attn")
      attn_residual == In(layer, "attn_residual")
      mlp_norm == In(layer, "post_attention_layernorm")
      gate == In(layer, "mlp.gate_proj")
      act == In(layer, "mlp.act")
      up == In(layer, "mlp.up_proj")
      mul == In(layer, "mlp.mul")
      down == In(layer, "mlp.down_proj")
      Linear(in_dim, out_dim) == Sized("Linear", [in_dim |-> in_dim, out_dim |-> out_dim])
  IN  <<Call(norm, RMSNorm(config), <<hidden>>),
        Call(attn, [Attention(config) EXCEPT !.paged = paged],
             <<Out(norm), Part(rope, "cos"), Part(rope, "sin"), pos_ids>>),
        Call(attn_residual, AttnResidual(layer), <<hidden, Out(attn)>>),
        Call(mlp_norm, RMSNorm(config), <<Out(attn_residual)>>),
        Call(gate, Linear(size, config.intermediate_size), <<Out(mlp_norm)>>),
        Call(act, [Param("SiLU") EXCEPT !.inplace = TRUE], <<Out(gate)>>),
        Call(up, Linear(size, config.intermediate_size), <<Out(mlp_norm)>>),
        Call(mul, Arithmetic("Mul", 1), <<Out(act), Out(up)>>),
        Call(down, Linear(config.intermediate_size, size), <<Out(mul)>>),
        Call(In(layer, "mlp_residual"), Arithmetic("Add", 1), <<Out(attn_residual), Out(down)>>)>>

(* All calls of llama_add_node, in order.                                   *)
ModelCalls(config, paged) ==
  LET layers == config.num_hidden_layers
  IN  <<Call(embed_tokens,
             Sized("Embedding", [num_embeddings |-> config.vocab_size,
                                 hidden_size |-> config.hidden_size]), <<token_ids>>),
        Call(rope,
             [Sized("Rope", [max_len |-> config.max_position_embeddings,
                             head_dim |-> head_dim(config)]) EXCEPT !.pin = TRUE], <<>>)>>
      \o FlattenSeq([layer \in 1 .. layers |-> LayerCalls(config, layer, paged)])
      \o <<Call(model_norm, [RMSNorm(config) EXCEPT !.inplace = TRUE],
                <<last_hidden_state(layers)>>),
           Call(lm_head,
                [Sized("SliceLinear", [in_dim |-> config.hidden_size, only_last_q |-> 1,
                                       out_dim |-> config.vocab_size]) EXCEPT !.paged = paged],
                <<Out(model_norm)>>)>>

(* What the parser can read: no biases, no scaling of rope, SiLU.           *)
Supported(config) ==
  ~config.attention_bias /\ ~config.rope_scaling /\ config.hidden_act = "silu"

llama_parser(config, paged) ==
  LET start == Then(add_tensor(EmptyGraph, token_ids, "kUint32", <<1, 2>>),
                    LAMBDA g : add_tensor(g, pos_ids, "kUint32", <<1, 2>>))
      built == FoldLeft(llama_add_node, start, ModelCalls(config, paged))
      named == Then(Then(built, LAMBDA g : set_input_names(g, {token_ids, pos_ids})),
                    LAMBDA g : set_output_names(g, {Out(lm_head)}))
  IN  IF ~Supported(config) \/ named.threw THEN Threw(EmptyGraph) ELSE named
=============================================================================
