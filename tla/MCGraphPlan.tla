----------------------------- MODULE MCGraphPlan -----------------------------
(* Graphs of up to three nodes over three tensors, in every order of the      *)
(* calls: dead nodes, diamonds, cycles, second producers, operands in place; *)
(* and the graphs of Llama models of one and two layers.                     *)
EXTENDS PlanExecution

(* One of the names taken, or the next: of three, or of two where a tensor   *)
(* was given an impossible shape.                                            *)
MCNodeNames(g) ==
  LET most == IF \E t \in Ids(g.tensor_infos) : g.tensor_infos[t].shape = <<0>> THEN 2 ELSE 3
  IN  {<<k, "node", "">> : k \in 1 .. IF Len(g.nodes) < most THEN Len(g.nodes) + 1 ELSE most}

SiLUInPlace == [Param("SiLU") EXCEPT !.inplace = TRUE]

MCParams(g) ==
  {SiLUInPlace} \cup (IF Len(g.nodes) < 2 THEN {Param("Add")} ELSE {})
                \cup (IF Len(g.nodes) < 1 THEN {Sized("Rope", [max_len |-> 1, head_dim |-> 2])} ELSE {})

MCShapes(g) ==
  {Floats(<<1>>)} \cup IF g = EmptyGraph THEN {Floats(<<0>>)} ELSE {}

(* The names of the tensors nothing writes, and of those nothing reads.      *)
Unwritten(g) == {x \in DOMAIN g.tensor_name_to_idx : Named(g, x).producer_node = None}
Unread(g) == {x \in DOMAIN g.tensor_name_to_idx : Named(g, x).consumer_nodes = <<>>}

MCInputSets(g) == {Unwritten(g), Unwritten(g) \ Unread(g), TensorNames}
MCOutputSets(g) == {Unread(g) \ Unwritten(g)} \cup {{x} : x \in TensorNames}

ShapeRange(min, max) == [min_shape |-> min, max_shape |-> max]

(* All inputs are configured: those of a model for the tokens of as many     *)
(* requests as there can be, one without pages. Or, for a model, none is, or *)
(* one badly.                                                                *)
MCRanges(g) ==
  LET attention == g.nodes[g.node_name_to_idx[In(1, "self_attn")]].param
      tokens == attention.dims.max_len * IF attention.paged THEN MaxRequestNum ELSE 1
  IN  IF ~Parsed(g) THEN {[x \in g.input_names |-> ShapeRange(<<1>>, <<2>>)]}
      ELSE {[x \in g.input_names |-> ShapeRange(<<1, 1>>, <<1, tokens>>)],
            [x \in {} |-> ShapeRange(<<1, 1>>, <<1, tokens>>)],
            [x \in g.input_names |-> ShapeRange(<<1, 2>>, <<1, 1>>)]}

Config(layers, size, bias) ==
  [attention_bias |-> bias, rope_scaling |-> FALSE, hidden_act |-> "silu",
   vocab_size |-> 3, hidden_size |-> size, intermediate_size |-> 5,
   num_hidden_layers |-> layers, num_attention_heads |-> 2, num_key_value_heads |-> 1,
   max_position_embeddings |-> 2]
MCLlamaConfigs ==
  {Config(1, 4, FALSE), Config(2, 4, FALSE), Config(1, 5, FALSE), Config(1, 4, TRUE)}

(* Models of one layer are executed, in the orders that begin with rope.     *)
MCRuns(p) ==
  /\ p.tasks[1].name = rope
  /\ Cardinality({i \in DOMAIN p.tasks : p.tasks[i].param.kind = "CausalAttention"}) = 1
MCInputShapes == {<<1, n>> : n \in {1, 2, 4, 5}}

Symmetry == Permutations(TensorNames)
=============================================================================
