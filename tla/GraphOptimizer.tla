---------------------------- MODULE GraphOptimizer ----------------------------
(***************************************************************************)
(* DCEPass (tiny_llm/graph/graph_optimizer.cpp): the nodes no output needs  *)
(* are removed, with the tensors only they touched, and everything that is  *)
(* left is numbered anew.                                                   *)
(***************************************************************************)
EXTENDS Graph

(* The ids that are kept keep their order: from old id to new.              *)
OriginToNew(retained) == [id \in retained |-> Cardinality({k \in retained : k <= id})]

TouchedBy(node) == Range(node.input_tensors) \cup Range(node.output_tensors)

Through(new, ids) == [k \in DOMAIN ids |-> new[ids[k]]]

(* (fault) the consumers that were removed stay listed, under the id that   *)
(* was theirs.                                                              *)
ConsumersLeft_Stale(consumer_nodes, new) ==
  [k \in DOMAIN consumer_nodes |->
     IF consumer_nodes[k] \in DOMAIN new THEN new[consumer_nodes[k]] ELSE consumer_nodes[k]]

ConsumersLeft(consumer_nodes, new) ==
  LET left == {k \in DOMAIN consumer_nodes : consumer_nodes[k] \in DOMAIN new}
      origin == AntiFunction(OriginToNew(left))
  IN  [k \in 1 .. Cardinality(left) |-> new[consumer_nodes[origin[k]]]]

shrink(g, retain_nodes) ==
  LET retain_tensors == UNION {TouchedBy(g.nodes[id]) : id \in retain_nodes}
      node_new == OriginToNew(retain_nodes)
      tensor_new == OriginToNew(retain_tensors)
      nodes == [k \in 1 .. Cardinality(retain_nodes) |->
                  LET node == g.nodes[AntiFunction(node_new)[k]]
                  IN  [node EXCEPT !.input_tensors = Through(tensor_new, @),
                                   !.output_tensors = Through(tensor_new, @)]]
      tensor_infos == [k \in 1 .. Cardinality(retain_tensors) |->
                         LET info == g.tensor_infos[AntiFunction(tensor_new)[k]]
                         IN  [info EXCEPT !.consumer_nodes = ConsumersLeft(@, node_new),
                                          !.producer_node = IF @ = None THEN None ELSE node_new[@]]]
      tensor_names == {tensor_infos[k].name : k \in DOMAIN tensor_infos}
      IdOf(infos, name) == CHOOSE k \in DOMAIN infos : infos[k].name = name
  IN  [nodes |-> nodes, tensor_infos |-> tensor_infos,
       node_name_to_idx |->
         [name \in {nodes[k].name : k \in DOMAIN nodes} |-> IdOf(nodes, name)],
       tensor_name_to_idx |-> [name \in tensor_names |-> IdOf(tensor_infos, name)],
       input_names |-> g.input_names \cap tensor_names,
       output_names |-> g.output_names]

(* The nodes found from those that write the outputs, towards the inputs.   *)
Needed(g) ==
  FoldLeft(LAMBDA found, n :
             found \cup ({g.tensor_infos[t].producer_node :
                            t \in UNION {Range(g.nodes[id].input_tensors) : id \in found}} \ {None}),
           {Named(g, name).producer_node : name \in g.output_names}, g.nodes)

(* (fault) only nodes whose outputs nobody reads at all are removed.        *)
RetainNodes_Unread(g) ==
  {id \in Ids(g.nodes) :
     \E t \in Range(g.nodes[id].output_tensors) :
       g.tensor_infos[t].consumer_nodes # <<>> \/ g.tensor_infos[t].name \in g.output_names}

RetainNodes(g) == Needed(g)

(* DCEPass::run, of a graph that has an output: an output that no node      *)
(* writes has no producer to start from.                                    *)
RunDCE(g) ==
  IF \E name \in g.output_names : Named(g, name).producer_node = None THEN Threw(g)
  ELSE Returned(shrink(g, RetainNodes(g)))
=============================================================================
