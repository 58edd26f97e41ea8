-------------------------------- MODULE Graph --------------------------------
(***************************************************************************)
(* The graph a model is parsed into (tiny_llm/graph/graph.cpp).  Nodes and  *)
(* tensors are kept twice: in vectors, by id, and in maps from name to id;  *)
(* a tensor lists the nodes that consume it and the one that produces it, a *)
(* node lists the tensors it reads and writes.                              *)
(*                                                                         *)
(* Ids count from 1.  A call returns [graph, threw]: a call that throws may *)
(* have changed the graph already.                                          *)
(***************************************************************************)
EXTENDS Param, FiniteSets, SequencesExt

None == 0  \* the producer_node of a tensor no node writes

EmptyGraph ==
  [nodes |-> <<>>, tensor_infos |-> <<>>,
   node_name_to_idx |-> <<>>, tensor_name_to_idx |-> <<>>,
   input_names |-> {}, output_names |-> {}]

Returned(g) == [graph |-> g, threw |-> FALSE]
Threw(g) == [graph |-> g, threw |-> TRUE]
Checked(holds, before, after) == IF holds THEN Returned(after) ELSE Threw(before)

NewTensor(name) ==
  [name |-> name, has_explicit_added |-> FALSE, dtype |-> "kFloat32", shape |-> <<>>,
   consumer_nodes |-> <<>>, producer_node |-> None]

Named(g, name) == g.tensor_infos[g.tensor_name_to_idx[name]]

(* The map with one more name in it.                                        *)
Emplaced(map, name, id) ==
  [x \in DOMAIN map \cup {name} |-> IF x = name THEN id ELSE map[x]]

(* get_tensor: the tensor of that name is there, or is added.               *)
WithTensor(g, name) ==
  IF name \in DOMAIN g.tensor_name_to_idx THEN g
  ELSE [g EXCEPT !.tensor_infos = Append(@, NewTensor(name)),
                 !.tensor_name_to_idx = Emplaced(@, name, Len(g.tensor_infos) + 1)]

add_tensor(g, name, dtype, shape) ==
  LET h == WithTensor(g, name)
      id == h.tensor_name_to_idx[name]
  IN  Checked(~h.tensor_infos[id].has_explicit_added, h,
              [h EXCEPT !.tensor_infos[id].has_explicit_added = TRUE,
                        !.tensor_infos[id].dtype = dtype,
                        !.tensor_infos[id].shape = shape])

-----------------------------------------------------------------------------
(* add_node                                                                 *)

(* One turn of the loop over input_names.                                   *)
Consuming(g, node_id, name) ==
  LET h == WithTensor(g, name)
      id == h.tensor_name_to_idx[name]
  IN  [h EXCEPT !.tensor_infos[id].consumer_nodes = Append(@, node_id),
                !.nodes[node_id].input_tensors = Append(@, id)]

(* One turn of the loop over output_names: a tensor has one producer.       *)
Producing(g, node_id, name) ==
  LET h == WithTensor(g, name)
      id == h.tensor_name_to_idx[name]
  IN  Checked(h.tensor_infos[id].producer_node = None, h,
              [h EXCEPT !.tensor_infos[id].producer_node = node_id,
                        !.nodes[node_id].output_tensors = Append(@, id)])

NewNode(name, param) ==
  [name |-> name, param |-> param, input_tensors |-> <<>>, output_tensors |-> <<>>]

add_node(g, name, input_names, output_names, param) ==
  LET id == Len(g.nodes) + 1
      added == [g EXCEPT !.nodes = Append(@, NewNode(name, param)),
                         !.node_name_to_idx = Emplaced(@, name, id)]
      reading == FoldLeft(LAMBDA h, x : Consuming(h, id, x), added, input_names)
  IN  IF \/ name \in DOMAIN g.node_name_to_idx
         \/ Len(input_names) # input_num(param)
         \/ Len(output_names) # output_num(param)
      THEN Threw(g)
      ELSE FoldLeft(LAMBDA o, x : IF o.threw THEN o ELSE Producing(o.graph, id, x),
                    Returned(reading), output_names)

set_input_names(g, input_names) ==
  Checked(input_names \subseteq DOMAIN g.tensor_name_to_idx, g,
          [g EXCEPT !.input_names = input_names])

set_output_names(g, output_names) ==
  Checked(output_names \subseteq DOMAIN g.tensor_name_to_idx, g,
          [g EXCEPT !.output_names = output_names])

-----------------------------------------------------------------------------
(* is_valid                                                                 *)

Ids(seq) == DOMAIN seq

is_valid_map(map) ==
  {map[name] : name \in DOMAIN map} = 1 .. Cardinality(DOMAIN map)

is_valid_tensor_infos(g) ==
  \A id \in Ids(g.tensor_infos) :
    LET tensor_info == g.tensor_infos[id]
    IN  /\ tensor_info.name \in DOMAIN g.tensor_name_to_idx
        /\ Range(tensor_info.consumer_nodes) \subseteq Ids(g.nodes)
        /\ \/ tensor_info.producer_node \in Ids(g.nodes)
           \/ tensor_info.producer_node = None /\ tensor_info.has_explicit_added

(* What a node overwrites is one of its operands (at throws if it is not),  *)
(* which no other node reads.                                               *)
OverwritesItsOwn(g, node) ==
  \A inner_id \in get_inplace_input_ids(node.param) :
    /\ inner_id + 1 \in DOMAIN node.input_tensors
    /\ Cardinality(Range(g.tensor_infos[node.input_tensors[inner_id + 1]].consumer_nodes)) = 1

is_valid_nodes(g) ==
  \A id \in Ids(g.nodes) :
    LET node == g.nodes[id]
    IN  /\ node.name \in DOMAIN g.node_name_to_idx
        /\ Range(node.input_tensors) \cup Range(node.output_tensors) \subseteq Ids(g.tensor_infos)
        /\ OverwritesItsOwn(g, node)

(* A name of a tensor that is read, and that no node writes.                *)
IsInput(g, name) ==
  /\ name \in DOMAIN g.tensor_name_to_idx
  /\ Named(g, name).producer_node = None
  /\ Named(g, name).consumer_nodes # <<>>

(* (fault) an output may be read as well.                                   *)
IsOutput_Consumed(g, name) ==
  /\ name \in DOMAIN g.tensor_name_to_idx
  /\ Named(g, name).producer_node # None

(* A name of a tensor that some node writes, and none reads.                *)
IsOutput(g, name) ==
  /\ name \in DOMAIN g.tensor_name_to_idx
  /\ Named(g, name).producer_node # None
  /\ Named(g, name).consumer_nodes = <<>>

(* What the nodes that read a tensor write.                                 *)
NextTensors(g, tensor_id) ==
  UNION {Range(g.nodes[n].output_tensors) : n \in Range(g.tensor_infos[tensor_id].consumer_nodes)}

(* The search marks the outputs of the nodes without operands at once, and  *)
(* does not go on from a tensor that is marked already.                     *)
Reached(g) ==
  LET constant == UNION {Range(g.nodes[n].output_tensors) :
                           n \in {k \in Ids(g.nodes) : input_num(g.nodes[k].param) = 0}}
      start == {g.tensor_name_to_idx[name] : name \in g.input_names}
  IN  constant \cup
      FoldLeft(LAMBDA found, t : found \cup UNION {NextTensors(g, id) : id \in found \ constant},
               start, g.tensor_infos)

is_valid(g) ==
  /\ g.output_names # {}
  /\ is_valid_map(g.tensor_name_to_idx) /\ is_valid_map(g.node_name_to_idx)
  /\ Cardinality(DOMAIN g.tensor_name_to_idx) = Len(g.tensor_infos)
  /\ Cardinality(DOMAIN g.node_name_to_idx) = Len(g.nodes)
  /\ is_valid_tensor_infos(g) /\ is_valid_nodes(g)
  /\ \A name \in g.input_names : IsInput(g, name)
  /\ \A name \in g.output_names : IsOutput(g, name)
  /\ {g.tensor_name_to_idx[name] : name \in g.output_names} \subseteq Reached(g)
=============================================================================
